---------------------------- MODULE Spec2Model ----------------------------
(***************************************************************************)
(* A model of the PPTX-to-JSON resolution pipeline of src/src/utils.js     *)
(* (entry point, resource graph, node dispatcher, shape builder, graphic   *)
(* frame handlers) and src/unnamed/part_000 (the fill resolvers).          *)
(*                                                                         *)
(* The module holds several specifications, one per part of the pipeline:  *)
(*   SpecParse     parse(): content types, theme, the loop over the slides. *)
(*   SpecFill      getSlideBackgroundFill and getShapeFill.                *)
(*   SpecGradient  getBgGradientFill over every gradient of its pool.      *)
(*   SpecSlide     the loop of processSingleSlide over the shape tree and  *)
(*                 the node dispatcher with its handlers.                  *)
(* Every specification leaves the variables of the other parts unchanged.  *)
(*                                                                         *)
(* Conventions.  A JavaScript string that the code takes apart (a file     *)
(* name suffix, a colour, a gradient position) is a sequence of            *)
(* one-character strings or of digits, so that formatting and parsing are  *)
(* computed and not assumed.  `undefined` is the value Undefined.          *)
(***************************************************************************)
EXTENDS Integers, Sequences, FiniteSets, TLC

VARIABLES
    \* ---- parse() : src/src/utils.js 227-255 ----
    contentTypes,   \* the Override entries of [Content_Types].xml, file order
    presRels,       \* the Relationship entries of ppt/_rels/presentation.xml.rels
    sldSz,          \* <<cx, cy>> of p:sldSz in ppt/presentation.xml (EMU)
    pc,             \* the position of parse(): which await it is at
    filesInfo,      \* the value getContentTypes returned
    size,           \* {width, height} as getSlideInfo returned it
    themeContent,   \* the value loadTheme returned
    cursor,         \* the position of the for-of loop over filesInfo.slides
    slides,         \* the local array `slides` of parse()
    outcome,        \* what the caller of parse() observes
    partsRead,      \* the parts parse() has read from the archive, in order
    \* ---- getSlideBackgroundFill / getShapeFill : src/unnamed/part_000 ----
    slideBg,        \* p:sld/p:cSld/p:bg of warpObj.slideContent
    layoutBg,       \* p:sldLayout/p:cSld/p:bg of warpObj.slideLayoutContent
    masterBg,       \* p:sldMaster/p:cSld/p:bg of warpObj.slideMasterContent
    clrMapOvr,      \* which part carries an a:overrideClrMapping
    fillPc,         \* the position of getSlideBackgroundFill
    pendingRead,    \* the archive read getPicFill is awaiting
    zipReads,       \* the paths read from the archive so far, in order
    bgResult,       \* the record getSlideBackgroundFill returned
    shapeFill,      \* the last call of getShapeFill: its input and result
    bgCalls,        \* the calls of getSlideBackgroundFill for this slide so far
    \* ---- getBgGradientFill : src/unnamed/part_000 86-117 ----
    gradArg,        \* the a:gradFill of the bgPr it is given
    gradReturn,     \* the record it returned
    \* ---- processSingleSlide, the node dispatcher : src/src/utils.js 527-731 ----
    nodes,          \* the drawable children of p:sld/p:cSld/p:spTree, document order
    digramFileContent, \* the p:sp children of p:drawing/p:spTree of the diagram part
    nodeCursor,     \* the position of the loops over `nodes`
    elements,       \* the local array `elements` of processSingleSlide
    slidePc,        \* looping, resolved or rejected
    slideReturn,    \* the value processSingleSlide resolved with
    inFlight,       \* the handlers started, not awaited and not yet completed
    tableStyles,    \* warpObj['tableStyles']: the a:tblStyle nodes of a:tblStyleLst
    \* ---- getTextByPathList : src/src/utils.js 84-95 ----
    pathNode,       \* its argument node
    pathArg,        \* its argument path
    pathReturn,     \* what the call returned or threw
    pathRead,       \* how many keys of path the call read
    \* ---- indexNodes : src/src/utils.js 599-636 ----
    spTreeNode,     \* the children of p:cSld/p:spTree of the part, document order
    indexReturn,    \* the tables indexNodes returned
    \* ---- processSingleSlide, relationship loading : src/src/utils.js 355-421 ----
    relsPart,       \* the part whose .rels is loaded: slide, layout or master
    relationshipArray,\* Relationships.Relationship of the .rels part
    relsReturn      \* the link and the rId map the loading produced

parseVars == <<contentTypes, presRels, sldSz, pc, filesInfo, size,
               themeContent, cursor, slides, outcome, partsRead>>

fillVars == <<slideBg, layoutBg, masterBg, clrMapOvr, fillPc, pendingRead,
              zipReads, bgResult, shapeFill, bgCalls>>

gradVars == <<gradArg, gradReturn>>

slideVars == <<nodes, digramFileContent, nodeCursor, elements, slidePc, slideReturn,
               inFlight, tableStyles>>

pathVars == <<pathNode, pathArg, pathReturn, pathRead>>

indexVars == <<spTreeNode, indexReturn>>

relsVars == <<relsPart, relationshipArray, relsReturn>>

vars == <<parseVars, fillVars, gradVars, slideVars, pathVars,
          indexVars,
          relsVars>>

Undefined == [undefined |-> TRUE]

(***************************************************************************)
(* Each specification starts the variables of the other parts in a resting *)
(* state and never changes them.                                           *)
(***************************************************************************)
ParseIdle ==
    /\ contentTypes = <<>>
    /\ presRels = <<>>
    /\ sldSz = <<0, 0>>
    /\ pc = "idle"
    /\ filesInfo = Undefined
    /\ size = Undefined
    /\ themeContent = Undefined
    /\ cursor = 0
    /\ slides = <<>>
    /\ outcome = [state |-> "idle"]
    /\ partsRead = <<>>

FillIdle ==
    /\ slideBg = Undefined
    /\ layoutBg = Undefined
    /\ masterBg = Undefined
    /\ clrMapOvr = "none"
    /\ fillPc = "idle"
    /\ pendingRead = Undefined
    /\ zipReads = <<>>
    /\ bgResult = Undefined
    /\ shapeFill = Undefined
    /\ bgCalls = 0

GradIdle ==
    /\ gradArg = Undefined
    /\ gradReturn = Undefined

SlideIdle ==
    /\ nodes = <<>>
    /\ digramFileContent = <<>>
    /\ nodeCursor = 0
    /\ elements = <<>>
    /\ slidePc = "idle"
    /\ slideReturn = Undefined
    /\ inFlight = 0
    /\ tableStyles = <<>>

PathIdle ==
    /\ pathNode = Undefined
    /\ pathArg = <<>>
    /\ pathReturn = [state |-> "idle"]
    /\ pathRead = 0

IndexIdle ==
    /\ spTreeNode = <<>>
    /\ indexReturn = Undefined

RelsIdle ==
    /\ relsPart = "slide"
    /\ relationshipArray = Undefined
    /\ relsReturn = Undefined

ParseOnly == UNCHANGED <<fillVars, gradVars, slideVars, pathVars,
                         indexVars,
                         relsVars>>

FillOnly == UNCHANGED <<parseVars, gradVars, slideVars, pathVars,
                        indexVars,
                        relsVars>>

GradOnly == UNCHANGED <<parseVars, fillVars, slideVars, pathVars,
                        indexVars,
                        relsVars>>

SlideOnly == UNCHANGED <<parseVars, fillVars, gradVars, pathVars,
                         indexVars,
                         relsVars>>

PathOnly == UNCHANGED <<parseVars, fillVars, gradVars, slideVars,
                        indexVars,
                        relsVars>>

IndexOnly == UNCHANGED <<parseVars, fillVars, gradVars, slideVars, pathVars,
                         relsVars>>

RelsOnly == UNCHANGED <<parseVars, fillVars, gradVars, slideVars, pathVars, indexVars>>

(***************************************************************************)
(* Bounds of the model.                                                    *)
(***************************************************************************)
MaxOverrides == 3
MaxStops == 3
MaxNodes == 3
MaxShapes == 2

(***************************************************************************)
(* Generic helpers.                                                        *)
(***************************************************************************)
SeqsUpTo(S, n) == UNION {[1..k -> S] : k \in 0..n}

Range(s) == {s[i] : i \in 1..Len(s)}

IsInjective(s) == \A i, j \in 1..Len(s) : s[i] = s[j] => i = j

(***************************************************************************)
(* Part names.  A part name such as ppt/slides/slide10.xml is the record   *)
(* [folder |-> "slides", digits |-> <<1, 0>>]: the folder it is in and the *)
(* decimal digits that precede ".xml".                                     *)
(***************************************************************************)
SuffixPool == {<<2>>, <<3>>, <<1, 0>>, <<2, 1>>}

SlideCT  == "application/vnd.openxmlformats-officedocument.presentationml.slide+xml"
LayoutCT == "application/vnd.openxmlformats-officedocument.presentationml.slideLayout+xml"
MainCT   == "application/vnd.openxmlformats-officedocument.presentationml.presentation.main+xml"

ThemeRelType == "http://schemas.openxmlformats.org/officeDocument/2006/relationships/theme"
SlideRelType == "http://schemas.openxmlformats.org/officeDocument/2006/relationships/slide"

PartName(folder, digits) == [folder |-> folder, digits |-> digits]

OverridePool ==
    {[ContentType |-> SlideCT, PartName |-> PartName("slides", d)] : d \in SuffixPool}
    \cup {[ContentType |-> LayoutCT, PartName |-> PartName("slideLayouts", <<1>>)]}
    \cup {[ContentType |-> MainCT, PartName |-> PartName("ppt", <<>>)]}

SlideParts(ct) ==
    {ct[i].PartName : i \in {j \in 1..Len(ct) : ct[j].ContentType = SlideCT}}

\* +/(\d+)\.xml/.exec(p)[1] : the decimal value of the digits before ".xml"
RECURSIVE DecimalValue(_)
DecimalValue(digits) ==
    IF digits = <<>> THEN 0
    ELSE 10 * DecimalValue(SubSeq(digits, 1, Len(digits) - 1)) + digits[Len(digits)]

\* The order of two digit strings as strings (what sort() uses without a
\* comparator): -1, 0 or 1.
RECURSIVE StringOrder(_, _)
StringOrder(a, b) ==
    IF a = <<>> /\ b = <<>> THEN 0
    ELSE IF a = <<>> THEN -1
    ELSE IF b = <<>> THEN 1
    ELSE IF Head(a) < Head(b) THEN -1
    ELSE IF Head(a) > Head(b) THEN 1
    ELSE StringOrder(Tail(a), Tail(b))

sortSlideXmlAsStrings(p1, p2) == StringOrder(p1.digits, p2.digits)

\* const sortSlideXml = (p1, p2) => n1 - n2
sortSlideXml(p1, p2) == DecimalValue(p1.digits) - DecimalValue(p2.digits)

\* Array.prototype.sort(sortSlideXml): a stable sort; an element moves left
\* past its neighbour only while the comparator is positive.
RECURSIVE InsertSlide(_, _)
InsertSlide(sorted, p) ==
    IF sorted = <<>> THEN <<p>>
    ELSE IF sortSlideXml(sorted[Len(sorted)], p) > 0
         THEN Append(InsertSlide(SubSeq(sorted, 1, Len(sorted) - 1), p),
                     sorted[Len(sorted)])
         ELSE Append(sorted, p)

RECURSIVE SortSlides(_)
SortSlides(s) ==
    IF s = <<>> THEN <<>>
    ELSE InsertSlide(SortSlides(SubSeq(s, 1, Len(s) - 1)), s[Len(s)])

\* The part names of the entries of one content type, in file order.
RECURSIVE LocArray(_, _)
LocArray(ct, type) ==
    IF ct = <<>> THEN <<>>
    ELSE IF Head(ct).ContentType = type
         THEN <<Head(ct).PartName>> \o LocArray(Tail(ct), type)
         ELSE LocArray(Tail(ct), type)

getContentTypes(ct) ==
    [slides       |-> SortSlides(LocArray(ct, SlideCT)),
     slideLayouts |-> SortSlides(LocArray(ct, LayoutCT))]

\* The parts parse() reads before the slides.
ContentTypesPart     == PartName("[Content_Types]", <<>>)
PresentationPart     == PartName("ppt/presentation", <<>>)
PresentationRelsPart == PartName("ppt/_rels/presentation.xml.rels", <<>>)

\* A loadTheme that falls back to ppt/theme/theme1.xml.
RECURSIVE ThemeURIOrDefault(_)
ThemeURIOrDefault(rels) ==
    IF rels = <<>> THEN PartName("theme", <<1>>)
    ELSE IF Head(rels).Type = ThemeRelType THEN Head(rels).Target
    ELSE ThemeURIOrDefault(Tail(rels))

\* loadTheme: the Target of the first relationship of the theme type.
RECURSIVE ThemeURI(_)
ThemeURI(rels) ==
    IF rels = <<>> THEN Undefined
    ELSE IF Head(rels).Type = ThemeRelType THEN Head(rels).Target
    ELSE ThemeURI(Tail(rels))

\* The record processSingleSlide builds from one slide part: its elements
\* (the fill is left out), labelled with the part it was read from.
SlideRecord(filename, singleSlide) ==
    [part |-> filename, elements |-> singleSlide.elements]

RelPool(ct) ==
    {[Type |-> SlideRelType, Target |-> p] : p \in SlideParts(ct)}
    \cup {[Type |-> ThemeRelType, Target |-> PartName("theme", <<1>>)]}

SldSzPool == {<<9144000, 6858000>>, <<12192000, 6858000>>}

\* English Metric Units per point (RATIO_EMUs_Points = 1 / 12700).
EMUsPerPoint == 12700

(***************************************************************************)
(* Strings that the fill resolvers build or take apart are sequences of    *)
(* one-character strings.                                                  *)
(***************************************************************************)
HexDigitChars == <<"0", "1", "2", "3", "4", "5", "6", "7", "8", "9",
                   "a", "b", "c", "d", "e", "f">>

UpperHexChars == <<"0", "1", "2", "3", "4", "5", "6", "7", "8", "9",
                   "A", "B", "C", "D", "E", "F">>

IsHexDigit(c) == \E i \in 1..16 : c = HexDigitChars[i] \/ c = UpperHexChars[i]

IsDecimalDigit(c) == \E i \in 1..10 : c = HexDigitChars[i]

\* The value of a hexadecimal (or decimal) digit character.
DigitValue(c) == (CHOOSE i \in 1..16 : c = HexDigitChars[i] \/ c = UpperHexChars[i]) - 1

\* Number.prototype.toString(radix) of a non-negative integer.
RECURSIVE IntToString(_, _)
IntToString(n, radix) ==
    IF n < radix THEN <<HexDigitChars[n + 1]>>
    ELSE Append(IntToString(n \div radix, radix), HexDigitChars[(n % radix) + 1])

\* The digits after the point of num/den (0 <= num < den) in the given
\* radix, for a fraction whose expansion ends.
RECURSIVE FractionToString(_, _, _)
FractionToString(num, den, radix) ==
    IF num = 0 THEN <<>>
    ELSE <<HexDigitChars[((num * radix) \div den) + 1]>>
         \o FractionToString((num * radix) % den, den, radix)

\* Number.prototype.toString(radix) of the non-negative number num/den.
NumberToString(num, den, radix) ==
    IntToString(num \div den, radix)
    \o (IF num % den = 0 THEN <<>>
        ELSE <<".">> \o FractionToString(num % den, den, radix))

\* toHex(n), for n = num/den: n.toString(16), padded on the left to 2.
toHex(num, den) ==
    LET hex == NumberToString(num, den, 16)
    IN  IF Len(hex) < 2 THEN <<"0">> \o hex ELSE hex

\* parseInt(s): the leading decimal digits of s; NaN when there are none.
RECURSIVE LeadingDigits(_)
LeadingDigits(s) ==
    IF s = <<>> \/ ~IsDecimalDigit(Head(s)) THEN <<>>
    ELSE <<Head(s)>> \o LeadingDigits(Tail(s))

RECURSIVE DigitCharsValue(_)
DigitCharsValue(s) ==
    IF s = <<>> THEN 0
    ELSE 10 * DigitCharsValue(SubSeq(s, 1, Len(s) - 1)) + DigitValue(s[Len(s)])

parseInt(s) ==
    IF LeadingDigits(s) = <<>> THEN [nan |-> TRUE, value |-> 0]
    ELSE [nan |-> FALSE, value |-> DigitCharsValue(LeadingDigits(s))]

\* /^#[0-9A-Fa-f]{6}([0-9A-Fa-f]{2})?$/
IsHexColor(s) ==
    /\ Len(s) \in {7, 9}
    /\ s[1] = "#"
    /\ \A i \in 2..Len(s) : IsHexDigit(s[i])

EmptyString == <<>>
NoneString  == <<"n", "o", "n", "e">>

(***************************************************************************)
(* Attribute values.  An XML attribute that may be missing is              *)
(* [present, v]; a numeric attribute holds the number its text denotes.    *)
(***************************************************************************)
Absent == [present |-> FALSE, v |-> 0]

Attr(n) == [present |-> TRUE, v |-> n]

(***************************************************************************)
(* Colour Engine: getSolidFill (src/unnamed/part_000 262-342) and what it  *)
(* calls.                                                                  *)
(***************************************************************************)
Hex_FF0000 == <<"F", "F", "0", "0", "0", "0">>
Hex_4472C4 == <<"4", "4", "7", "2", "C", "4">>
Hex_FFFFFF == <<"F", "F", "F", "F", "F", "F">>
Hex_000000 == <<"0", "0", "0", "0", "0", "0">>
Hex_0000FF == <<"0", "0", "0", "0", "F", "F">>

\* a:clrScheme of the theme part: slot -> the val of its a:srgbClr.
ThemeClrScheme ==
    [s \in {"dk1", "lt1", "accent1"} |->
        CASE s = "dk1" -> Hex_000000
          [] s = "lt1" -> Hex_FFFFFF
          [] s = "accent1" -> Hex_4472C4]

\* p:clrMap of the master: the attrs that map bg1, tx1 to theme slots.
MasterClrMap == [s \in {"bg1", "tx1"} |-> IF s = "bg1" THEN "lt1" ELSE "dk1"]

\* An a:overrideClrMapping that swaps the two.
OverrideClrMap == [s \in {"bg1", "tx1"} |-> IF s = "bg1" THEN "dk1" ELSE "lt1"]

\* getSchemeColorFromTheme (./schemeColor): follow the colour map once, then
\* index the theme's colour scheme; nothing when the slot is not there.
getSchemeColorFromTheme(name, clrMap) ==
    LET slot == IF name \in DOMAIN clrMap THEN clrMap[name] ELSE name
    IN  IF slot \in DOMAIN ThemeClrScheme
        THEN [found |-> TRUE, color |-> ThemeClrScheme[slot]]
        ELSE [found |-> FALSE, color |-> EmptyString]

\* getColorName2Hex (./color): the preset colour names of the table.
PresetColors == [n \in {"red", "blue"} |-> IF n = "red" THEN Hex_FF0000 ELSE Hex_0000FF]

getColorName2Hex(name) == PresetColors[name]

\* hslToRgb (./color), for a hue that is a multiple of 60 degrees and
\* sat, lum in percent: the three channels in units of 1/10000.
hslToRgb(hue, sat, lum) ==
    LET t2 == IF lum <= 50 THEN lum * (sat + 100) ELSE (lum + sat) * 100 - lum * sat
        t1 == 2 * lum * 100 - t2
        hueToRgb(h) == LET k == h % 6 IN IF k \in {1, 2, 3} THEN t2 ELSE t1
        h6 == hue \div 60
    IN  [r |-> hueToRgb(h6 + 2), g |-> hueToRgb(h6), b |-> hueToRgb(h6 - 2)]

\* tinycolor(color): the channels of a hex string of 3, 6 or 8 digits, with
\* or without '#'; any other string is not a colour and reads as black.
tinycolor(color) ==
    LET body == IF color # <<>> /\ Head(color) = "#" THEN Tail(color) ELSE color
        ok   == Len(body) \in {3, 6, 8} /\ \A i \in 1..Len(body) : IsHexDigit(body[i])
        pair(i) == 16 * DigitValue(body[i]) + DigitValue(body[i + 1])
    IN  IF ~ok THEN [r |-> 0, g |-> 0, b |-> 0, a |-> 255, ok |-> FALSE]
        ELSE IF Len(body) = 3
             THEN [r |-> 17 * DigitValue(body[1]), g |-> 17 * DigitValue(body[2]),
                   b |-> 17 * DigitValue(body[3]), a |-> 255, ok |-> TRUE]
             ELSE [r |-> pair(1), g |-> pair(3), b |-> pair(5),
                   a |-> IF Len(body) = 8 THEN pair(7) ELSE 255, ok |-> TRUE]

\* tinycolor(...).toHex(): six lower-case digits.
tinycolorToHex(c) == toHex(c.r, 1) \o toHex(c.g, 1) \o toHex(c.b, 1)

\* al_color.setAlpha(alpha); al_color.toHex8(), alpha = val / 100000.
toHex8WithAlpha(color, val) ==
    tinycolorToHex(tinycolor(color)) \o toHex((2 * 255 * val + 100000) \div 200000, 1)

\* The colour nodes getSolidFill is given: the parent of one colour child.
SrgbClr(val, alpha)        == [clr |-> "a:srgbClr", val |-> val, alpha |-> alpha]
SchemeClr(name, alpha)     == [clr |-> "a:schemeClr", name |-> name, alpha |-> alpha]
ScrgbClr(r, g, b, alpha)   == [clr |-> "a:scrgbClr", r |-> r, g |-> g, b |-> b, alpha |-> alpha]
PrstClr(name, alpha)       == [clr |-> "a:prstClr", name |-> name, alpha |-> alpha]
HslClr(hue, sat, lum, alpha) == [clr |-> "a:hslClr", hue |-> hue, sat |-> sat, lum |-> lum, alpha |-> alpha]
SysClr(lastClr, alpha)     == [clr |-> "a:sysClr", lastClr |-> lastClr, alpha |-> alpha]
NoClr                      == [clr |-> "", alpha |-> Absent]

\* The base colour of lines 268-303.
BaseColor(solidFill, clrMap) ==
    CASE solidFill.clr = "a:srgbClr"   -> solidFill.val
      [] solidFill.clr = "a:schemeClr" -> getSchemeColorFromTheme(solidFill.name, clrMap).color
      [] solidFill.clr = "a:scrgbClr"  ->
            toHex(255 * solidFill.r, 100) \o toHex(255 * solidFill.g, 100)
            \o toHex(255 * solidFill.b, 100)
      [] solidFill.clr = "a:prstClr"   -> getColorName2Hex(solidFill.name)
      [] solidFill.clr = "a:hslClr"    ->
            LET hsl2rgb == hslToRgb(solidFill.hue, solidFill.sat, solidFill.lum)
            IN  toHex(255 * hsl2rgb.r, 10000) \o toHex(255 * hsl2rgb.g, 10000)
                \o toHex(255 * hsl2rgb.b, 10000)
      [] solidFill.clr = "a:sysClr"    -> solidFill.lastClr
      [] OTHER -> EmptyString

\* getSolidFill(solidFill, clrMap, phClr, warpObj) for a node without the
\* HSL modifiers (hueMod, lumMod, lumOff, satMod, shade, tint) and phClr.
getSolidFill(solidFill, clrMap) ==
    LET base  == BaseColor(solidFill, clrMap)
        color == IF solidFill.alpha.present
                 THEN toHex8WithAlpha(base, solidFill.alpha.v)
                 ELSE base
    IN  IF color # EmptyString /\ "#" \notin Range(color) THEN <<"#">> \o color ELSE color

(***************************************************************************)
(* parse()                                                                 *)
(***************************************************************************)
\* A package as section 6 of the specification requires it: the
\* presentation part and at least one slide part, each part listed once.
InitParse ==
    /\ contentTypes \in
          {ct \in SeqsUpTo(OverridePool, MaxOverrides) :
              /\ IsInjective(ct)
              /\ \E i \in 1..Len(ct) : ct[i].ContentType = MainCT
              /\ SlideParts(ct) # {}}
    /\ presRels \in
          {r \in SeqsUpTo(RelPool(contentTypes), Cardinality(RelPool(contentTypes))) :
              /\ IsInjective(r)
              /\ \A p \in SlideParts(contentTypes) :
                    [Type |-> SlideRelType, Target |-> p] \in Range(r)}
    /\ sldSz \in SldSzPool
    /\ pc = "getContentTypes"
    /\ filesInfo = Undefined
    /\ size = Undefined
    /\ themeContent = Undefined
    /\ cursor = 0
    /\ slides = <<>>
    /\ outcome = [state |-> "pending"]
    /\ partsRead = <<>>
    /\ FillIdle
    /\ GradIdle
    /\ SlideIdle
    /\ PathIdle
    /\ IndexIdle
    /\ RelsIdle

GetContentTypes ==
    /\ pc = "getContentTypes"
    /\ filesInfo' = getContentTypes(contentTypes)
    /\ partsRead' = Append(partsRead, ContentTypesPart)
    /\ pc' = "getSlideInfo"
    /\ UNCHANGED <<contentTypes, presRels, sldSz, size, themeContent, cursor,
                   slides, outcome>>
    /\ ParseOnly

GetSlideInfo ==
    /\ pc = "getSlideInfo"
    /\ size' = [width  |-> sldSz[1] \div EMUsPerPoint,
                height |-> sldSz[2] \div EMUsPerPoint]
    /\ partsRead' = Append(partsRead, PresentationPart)
    /\ pc' = "loadTheme"
    /\ UNCHANGED <<contentTypes, presRels, sldSz, filesInfo, themeContent,
                   cursor, slides, outcome>>
    /\ ParseOnly

LoadTheme ==
    /\ pc = "loadTheme"
    /\ IF ThemeURI(presRels) = Undefined
       THEN /\ pc' = "rejected"
            /\ outcome' = [state |-> "rejected", error |-> "Can't open theme file."]
            /\ partsRead' = Append(partsRead, PresentationRelsPart)
            /\ UNCHANGED <<themeContent, cursor>>
       ELSE /\ themeContent' = [part |-> ThemeURI(presRels)]
            /\ partsRead' = partsRead \o <<PresentationRelsPart, ThemeURI(presRels)>>
            /\ cursor' = 1
            /\ pc' = "loop"
            /\ UNCHANGED outcome
    /\ UNCHANGED <<contentTypes, presRels, sldSz, filesInfo, size, slides>>
    /\ ParseOnly


(***************************************************************************)
(* Fill Resolver: src/unnamed/part_000                                     *)
(***************************************************************************)
\* getFillType(node): the last of the fill children that is present.
getFillType(node) ==
    IF "a:grpFill" \in node.fills THEN "GROUP_FILL"
    ELSE IF "a:blipFill" \in node.fills THEN "PIC_FILL"
    ELSE IF "a:pattFill" \in node.fills THEN "PATTERN_FILL"
    ELSE IF "a:gradFill" \in node.fills THEN "GRADIENT_FILL"
    ELSE IF "a:solidFill" \in node.fills THEN "SOLID_FILL"
    ELSE IF "a:noFill" \in node.fills THEN "NO_FILL"
    ELSE ""

\* angleToDegrees without the rounding: the whole degrees only.
angleToDegreesTruncated(angle) ==
    IF ~angle.present THEN 0 ELSE angle.v \div 60000

\* angleToDegrees(angle): 0 for a missing angle, else
\* Math.round(angle / 60000), which rounds a half up.
angleToDegrees(angle) ==
    IF ~angle.present THEN 0 ELSE (2 * angle.v + 60000) \div 120000

\* pos ? (pos / 1000 + '%') : ''
PosString(pos) ==
    IF pos.present THEN NumberToString(pos.v, 1000, 10) \o <<"%">> ELSE EmptyString

\* color_ary of getBgGradientFill, before it is sorted.
GradientColorAry(grdFill) ==
    [i \in 1..Len(grdFill.gs) |->
        [pos   |-> PosString(grdFill.gs[i].pos),
         color |-> getSolidFill(grdFill.gs[i].clr, MasterClrMap)]]

\* (a, b) => parseInt(a.pos) - parseInt(b.pos); sort reads NaN as +0.
gradCompare(a, b) ==
    LET x == parseInt(a.pos)
        y == parseInt(b.pos)
    IN  IF x.nan \/ y.nan THEN 0 ELSE x.value - y.value

RECURSIVE InsertStop(_, _)
InsertStop(sorted, c) ==
    IF sorted = <<>> THEN <<c>>
    ELSE IF gradCompare(sorted[Len(sorted)], c) > 0
         THEN Append(InsertStop(SubSeq(sorted, 1, Len(sorted) - 1), c),
                     sorted[Len(sorted)])
         ELSE Append(sorted, c)

RECURSIVE SortStops(_)
SortStops(s) ==
    IF s = <<>> THEN <<>>
    ELSE InsertStop(SortStops(SubSeq(s, 1, Len(s) - 1)), s[Len(s)])

\* Whether the comparator orders the elements consistently (ECMAScript's
\* "consistent comparator"); when it does not, the order sort() leaves is
\* implementation-defined.
ConsistentComparator(ary) ==
    \A a, b, c \in Range(ary) :
        /\ gradCompare(a, b) = 0 /\ gradCompare(b, c) = 0 => gradCompare(a, c) = 0
        /\ gradCompare(a, b) < 0 /\ gradCompare(b, c) < 0 => gradCompare(a, c) < 0
        /\ gradCompare(a, b) > 0 /\ gradCompare(b, c) > 0 => gradCompare(a, c) > 0

Reorderings(ary) ==
    {[i \in 1..Len(ary) |-> ary[f[i]]] :
        f \in {g \in [1..Len(ary) -> 1..Len(ary)] : IsInjective(g)}}

\* The arrays color_ary.sort(...) can leave.
SortOutcomes(ary) ==
    IF ConsistentComparator(ary) THEN {SortStops(ary)} ELSE Reorderings(ary)

\* getBgGradientFill(bgPr, undefined, slideMasterContent, warpObj) for a
\* bgPr that is there: the records it can return.
getBgGradientFill(bgPr) ==
    LET grdFill == bgPr.gradFill
        rot == IF grdFill.lin.present THEN angleToDegrees(grdFill.lin.ang) + 90 ELSE 90
    IN  {[rot |-> rot, colors |-> c] : c \in SortOutcomes(GradientColorAry(grdFill))}

\* getMimeType(imgFileExt)
getMimeType(ext) ==
    CASE ext \in {"jpg", "jpeg"} -> "image/jpeg"
      [] ext = "png" -> "image/png"
      [] ext = "gif" -> "image/gif"
      [] ext = "emf" -> "image/x-emf"
      [] ext = "wmf" -> "image/x-wmf"
      [] ext = "svg" -> "image/svg+xml"
      [] ext = "mp4" -> "video/mp4"
      [] ext = "webm" -> "video/webm"
      [] ext = "ogg" -> "video/ogg"
      [] ext = "avi" -> "video/avi"
      [] ext = "mpg" -> "video/mpg"
      [] ext = "wmv" -> "video/wmv"
      [] ext = "mp3" -> "audio/mpeg"
      [] ext = "wav" -> "audio/wav"
      [] ext \in {"tif", "tiff"} -> "image/tiff"
      [] OTHER -> ""

\* `data:${mime};base64,${base64ArrayBuffer(bytes of path)}`
DataUrl(path) == [scheme |-> "data:", mime |-> getMimeType(path.ext), base64Of |-> path.name]

IsDataUrl(v) == DOMAIN v = {"scheme", "mime", "base64Of"}

\* slideResObj: rId -> target.  rId9 is in no relationship file.
SlideResObj ==
    [r \in {"rId2", "rId3"} |->
        IF r = "rId2" THEN [name |-> "ppt/media/image1", ext |-> "png"]
        ELSE [name |-> "ppt/media/image2", ext |-> "xml"]]

\* getPicFill up to its await: the target path of the a:blip of `node` in
\* slideResObj, and whether the archive is read for it.
PicFillPath(node) ==
    IF node.embed \in DOMAIN SlideResObj
    THEN [found |-> TRUE, path |-> SlideResObj[node.embed],
          read |-> SlideResObj[node.embed].ext # "xml"]
    ELSE [found |-> FALSE, path |-> Undefined, read |-> FALSE]

\* The opacity of getBgPicFill: amt / 100000, or 1.
BgPicOpacity(blipFill) ==
    IF blipFill.amt.present /\ blipFill.amt.v # 0
    THEN [num |-> blipFill.amt.v, den |-> 100000]
    ELSE [num |-> 1, den |-> 1]

\* The colour map of lines 146-155.
BgClrMap == IF clrMapOvr \in {"slide", "layout"} THEN OverrideClrMap ELSE MasterClrMap

DefaultBackground == <<"#", "f", "f", "f">>

(***************************************************************************)
(* The inputs of the fill resolvers.                                       *)
(***************************************************************************)
ColorNodePool ==
    {SrgbClr(Hex_FF0000, Absent), SrgbClr(Hex_FF0000, Attr(50000)),
     SchemeClr("accent1", Absent), SchemeClr("bg1", Absent),
     SchemeClr("folHlink", Absent),
     ScrgbClr(100, 0, 0, Absent), ScrgbClr(50, 0, 100, Absent),
     PrstClr("blue", Absent), HslClr(120, 100, 50, Absent),
     SysClr(Hex_000000, Absent)}

StopPool ==
    {[pos |-> Attr(0), clr |-> SrgbClr(Hex_FFFFFF, Absent)],
     [pos |-> Attr(50100), clr |-> SchemeClr("accent1", Absent)],
     [pos |-> Attr(50900), clr |-> SrgbClr(Hex_FF0000, Attr(50000))],
     [pos |-> Attr(100000), clr |-> SrgbClr(Hex_000000, Absent)],
     [pos |-> Absent, clr |-> PrstClr("blue", Absent)]}

LinPool ==
    {[present |-> FALSE, ang |-> Absent]}
    \cup {[present |-> TRUE, ang |-> a] :
            a \in {Absent, Attr(0), Attr(2700000), Attr(5400000), Attr(5429999),
                   Attr(5430000)}}

\* a:gsLst holds at least two a:gs (CT_GradientStopList).
GradFillPool ==
    {[gs |-> g, lin |-> l] :
        g \in {x \in SeqsUpTo(StopPool, MaxStops) : Len(x) >= 2 /\ IsInjective(x)},
        l \in LinPool}

\* The gradients of the slide backgrounds: two stops given last first with
\* a:lin ang="5400000"; two stops less than one percent apart; a stop
\* without pos and no a:lin.
GradFillSamples ==
    {[gs  |-> <<[pos |-> Attr(100000), clr |-> SrgbClr(Hex_000000, Absent)],
                [pos |-> Attr(0), clr |-> SrgbClr(Hex_FFFFFF, Absent)]>>,
      lin |-> [present |-> TRUE, ang |-> Attr(5400000)]],
     [gs  |-> <<[pos |-> Attr(50900), clr |-> SrgbClr(Hex_FF0000, Attr(50000))],
                [pos |-> Attr(50100), clr |-> SchemeClr("accent1", Absent)]>>,
      lin |-> [present |-> TRUE, ang |-> Attr(5430000)]],
     [gs  |-> <<[pos |-> Absent, clr |-> PrstClr("blue", Absent)],
                [pos |-> Attr(0), clr |-> SrgbClr(Hex_FFFFFF, Absent)]>>,
      lin |-> [present |-> FALSE, ang |-> Absent]]}

BlipFillPool ==
    {[embed |-> r, amt |-> a] : r \in {"rId2", "rId3", "rId9"}, a \in {Absent, Attr(50000)}}

NoFills == [solidFill |-> NoClr, gradFill |-> Undefined, blipFill |-> Undefined]

BgPrPool ==
    {[NoFills EXCEPT !.solidFill = c] @@ [fills |-> {"a:solidFill"}] : c \in ColorNodePool}
    \cup {[NoFills EXCEPT !.gradFill = g] @@ [fills |-> {"a:gradFill"}] : g \in GradFillSamples}
    \cup {[NoFills EXCEPT !.blipFill = b] @@ [fills |-> {"a:blipFill"}] : b \in BlipFillPool}
    \cup {NoFills @@ [fills |-> f] : f \in {{}, {"a:noFill"}, {"a:pattFill"}}}

BgRefPool == {[idx |-> 1001, clr |-> SchemeClr("bg1", Absent)]}

BgPool ==
    {Undefined}
    \cup {[bgPr |-> b] : b \in BgPrPool}
    \cup {[bgRef |-> r] : r \in BgRefPool}

InheritedBgPool ==
    {Undefined,
     [bgPr |-> [NoFills EXCEPT !.solidFill = SrgbClr(Hex_FF0000, Absent)]
               @@ [fills |-> {"a:solidFill"}]],
     [bgRef |-> [idx |-> 1001, clr |-> SchemeClr("bg1", Absent)]]}

HasBgPr(bg) == "bgPr" \in DOMAIN bg
HasBgRef(bg) == "bgRef" \in DOMAIN bg

\* The shape nodes getShapeFill is given: whether p:spPr has a:noFill, the
\* colour child of p:spPr/a:solidFill, and the scheme colour of
\* p:style/a:fillRef ("" when there is none).
ShapeFillPool ==
    {[noFill |-> FALSE, solidFill |-> SrgbClr(Hex_FF0000, Absent), fillRef |-> ""],
     [noFill |-> FALSE, solidFill |-> SrgbClr(Hex_0000FF, Absent), fillRef |-> "accent1"],
     [noFill |-> TRUE,  solidFill |-> SrgbClr(Hex_FF0000, Absent), fillRef |-> "accent1"],
     [noFill |-> FALSE, solidFill |-> SchemeClr("bg1", Absent), fillRef |-> "accent1"],
     [noFill |-> FALSE, solidFill |-> SchemeClr("folHlink", Absent), fillRef |-> "accent1"],
     [noFill |-> FALSE, solidFill |-> NoClr, fillRef |-> "accent1"],
     [noFill |-> FALSE, solidFill |-> NoClr, fillRef |-> ""]}

\* The colour of p:style/a:fillRef looked up before that of a:solidFill.
getShapeFillRefFirst(node, isSvgMode) ==
    LET ref    == IF node.fillRef # ""
                  THEN getSchemeColorFromTheme(node.fillRef, BgClrMap)
                  ELSE [found |-> FALSE, color |-> EmptyString]
        direct == IF ref.found THEN ref
                  ELSE IF node.solidFill.clr = "a:srgbClr"
                       THEN [found |-> TRUE, color |-> node.solidFill.val]
                       ELSE [found |-> FALSE, color |-> EmptyString]
        scheme == IF direct.found THEN direct
                  ELSE IF node.solidFill.clr = "a:schemeClr"
                       THEN getSchemeColorFromTheme(node.solidFill.name, BgClrMap)
                       ELSE [found |-> FALSE, color |-> EmptyString]
    IN  IF node.noFill
        THEN [defined |-> TRUE, value |-> IF isSvgMode THEN NoneString ELSE EmptyString]
        ELSE IF scheme.found
             THEN [defined |-> TRUE,
                   value |-> <<"#">> \o tinycolorToHex(tinycolor(<<"#">> \o scheme.color))]
             ELSE IF isSvgMode THEN [defined |-> TRUE, value |-> NoneString]
                  ELSE [defined |-> FALSE, value |-> EmptyString]

\* getShapeFill(node, isSvgMode, warpObj) for a node without a:lumMod and
\* a:lumOff under its scheme colour.
getShapeFill(node, isSvgMode) ==
    LET direct == IF node.solidFill.clr = "a:srgbClr"
                  THEN [found |-> TRUE, color |-> node.solidFill.val]
                  ELSE [found |-> FALSE, color |-> EmptyString]
        scheme == IF direct.found THEN direct
                  ELSE IF node.solidFill.clr = "a:schemeClr"
                       THEN getSchemeColorFromTheme(node.solidFill.name, BgClrMap)
                       ELSE [found |-> FALSE, color |-> EmptyString]
        ref    == IF scheme.found THEN scheme
                  ELSE IF node.fillRef # ""
                       THEN getSchemeColorFromTheme(node.fillRef, BgClrMap)
                       ELSE [found |-> FALSE, color |-> EmptyString]
    IN  IF node.noFill
        THEN [defined |-> TRUE, value |-> IF isSvgMode THEN NoneString ELSE EmptyString]
        ELSE IF ref.found
             THEN [defined |-> TRUE,
                   value |-> <<"#">> \o tinycolorToHex(tinycolor(<<"#">> \o ref.color))]
             ELSE IF isSvgMode THEN [defined |-> TRUE, value |-> NoneString]
                  ELSE [defined |-> FALSE, value |-> EmptyString]

InitFill ==
    /\ slideBg \in BgPool
    /\ layoutBg \in InheritedBgPool
    /\ masterBg \in InheritedBgPool
    /\ clrMapOvr \in {"none", "slide", "layout"}
    /\ fillPc = "called"
    /\ pendingRead = Undefined
    /\ zipReads = <<>>
    /\ bgResult = Undefined
    /\ shapeFill = Undefined
    /\ bgCalls = 1
    /\ ParseIdle
    /\ GradIdle
    /\ SlideIdle
    /\ PathIdle
    /\ IndexIdle
    /\ RelsIdle

\* getSlideBackgroundFill up to its first archive read or, when it reads
\* nothing, to its return.
GetSlideBackgroundFill ==
    /\ fillPc = "called"
    /\ LET bgFillTyp == IF HasBgPr(slideBg) THEN getFillType(slideBg.bgPr) ELSE ""
       IN
       CASE bgFillTyp = "SOLID_FILL" ->
              /\ bgResult' = [type |-> "color",
                              value |-> getSolidFill(slideBg.bgPr.solidFill, BgClrMap)]
              /\ fillPc' = "returned"
              /\ UNCHANGED pendingRead
         [] bgFillTyp = "GRADIENT_FILL" ->
              /\ \E gradientFill \in getBgGradientFill(slideBg.bgPr) :
                    bgResult' = [type |-> "gradient", value |-> gradientFill]
              /\ fillPc' = "returned"
              /\ UNCHANGED pendingRead
         [] bgFillTyp = "PIC_FILL" ->
              LET img == PicFillPath(slideBg.bgPr.blipFill) IN
              IF img.read
              THEN /\ pendingRead' = img.path
                   /\ fillPc' = "awaitZip"
                   /\ UNCHANGED bgResult
              ELSE /\ bgResult' = [type |-> "image",
                                   value |-> [picBase64 |-> Undefined,
                                              opacity |-> BgPicOpacity(slideBg.bgPr.blipFill)]]
                   /\ fillPc' = "returned"
                   /\ UNCHANGED pendingRead
         [] OTHER ->
              \* another fill kind, a p:bgRef, or no p:bg on the slide: the
              \* layout's and the master's p:bg are read and not used
              /\ bgResult' = [type |-> "color", value |-> DefaultBackground]
              /\ fillPc' = "returned"
              /\ UNCHANGED pendingRead
    /\ UNCHANGED <<slideBg, layoutBg, masterBg, clrMapOvr, zipReads, shapeFill,
                   bgCalls>>
    /\ FillOnly

\* warpObj['zip'].file(imgPath).async('arraybuffer') completes: getPicFill
\* and getBgPicFill return, and so does getSlideBackgroundFill.
ZipFileAsync ==
    /\ fillPc = "awaitZip"
    /\ zipReads' = Append(zipReads, pendingRead)
    /\ bgResult' = [type |-> "image",
                    value |-> [picBase64 |-> DataUrl(pendingRead),
                               opacity |-> BgPicOpacity(slideBg.bgPr.blipFill)]]
    /\ pendingRead' = Undefined
    /\ fillPc' = "returned"
    /\ UNCHANGED <<slideBg, layoutBg, masterBg, clrMapOvr, shapeFill, bgCalls>>
    /\ FillOnly

\* getShapeFill for a shape of the slide, once the slide's background is
\* resolved.
GetShapeFill ==
    /\ fillPc = "returned"
    /\ shapeFill = Undefined
    /\ \E node \in ShapeFillPool, isSvgMode \in BOOLEAN :
          shapeFill' = [node |-> node, isSvgMode |-> isSvgMode,
                        result |-> getShapeFill(node, isSvgMode)]
    /\ UNCHANGED <<slideBg, layoutBg, masterBg, clrMapOvr, fillPc, pendingRead,
                   zipReads, bgResult, bgCalls>>
    /\ FillOnly

\* genShape for the next shape of the slide:
\* `gradientFill = await getSlideBackgroundFill(warpObj) || ''` resolves the
\* background of the slide again.
GenShapeGradientFill ==
    /\ fillPc = "returned"
    /\ bgCalls <= MaxShapes
    /\ fillPc' = "called"
    /\ bgCalls' = bgCalls + 1
    /\ UNCHANGED <<slideBg, layoutBg, masterBg, clrMapOvr, pendingRead, zipReads,
                   bgResult, shapeFill>>
    /\ FillOnly

NextFill ==
    \/ GetSlideBackgroundFill
    \/ ZipFileAsync
    \/ GetShapeFill
    \/ GenShapeGradientFill

SpecFill == InitFill /\ [][NextFill]_vars

(***************************************************************************)
(* getBgGradientFill on its own, over every gradient of the pool.          *)
(***************************************************************************)
InitGradient ==
    /\ gradArg \in GradFillPool
    /\ gradReturn = Undefined
    /\ ParseIdle
    /\ FillIdle
    /\ SlideIdle
    /\ PathIdle
    /\ IndexIdle
    /\ RelsIdle

GetBgGradientFill ==
    /\ gradReturn = Undefined
    /\ \E g \in getBgGradientFill([gradFill |-> gradArg]) : gradReturn' = g
    /\ UNCHANGED gradArg
    /\ GradOnly

NextGradient == GetBgGradientFill

SpecGradient == InitGradient /\ [][NextGradient]_vars

(***************************************************************************)
(* Lengths.  parseInt(attr) * RATIO_EMUs_Points is a number of points; the *)
(* model holds it as an exact fraction n/d in lowest terms (the rounding   *)
(* of IEEE doubles is not modelled).  NaN and the Infinities, which a      *)
(* division by zero and arithmetic on undefined give, are NonFinite.       *)
(***************************************************************************)
RECURSIVE GCD(_, _)
GCD(a, b) == IF b = 0 THEN a ELSE GCD(b, a % b)

Abs(n) == IF n < 0 THEN -n ELSE n

\* The fraction n/d (d > 0) in lowest terms.
Rat(n, d) == LET g == GCD(Abs(n), d) IN [n |-> n \div g, d |-> d \div g]

NonFinite == [nonFinite |-> TRUE]

IsFinite(a) == DOMAIN a = {"n", "d"}

RatSub(a, b) ==
    IF IsFinite(a) /\ IsFinite(b) THEN Rat(a.n * b.d - b.n * a.d, a.d * b.d)
    ELSE NonFinite

RatMul(a, b) ==
    IF IsFinite(a) /\ IsFinite(b) THEN Rat(a.n * b.n, a.d * b.d)
    ELSE NonFinite

\* a / b for b >= 0; x / 0 is an Infinity or NaN.
RatDiv(a, b) ==
    IF IsFinite(a) /\ IsFinite(b) /\ b.n > 0 THEN Rat(a.n * b.d, a.d * b.n)
    ELSE NonFinite

\* RATIO_EMUs_Points (./constants): one EMU in points.
RATIO_EMUs_Points == Rat(1, EMUsPerPoint)

\* parseInt(attr) * RATIO_EMUs_Points
Points(emu) == RatMul(Rat(emu, 1), RATIO_EMUs_Points)

(***************************************************************************)
(* The nodes of a shape tree, as the XML has them.                         *)
(***************************************************************************)
\* a:xfrm of a shape, a picture or a graphic frame (EMU).
Xfrm(off, ext, rot, flipH) == [off |-> off, ext |-> ext, rot |-> rot, flipH |-> flipH]

\* a:xfrm of p:grpSpPr (EMU).
GrpXfrm(off, ext, chOff, chExt, rot) ==
    [off |-> off, ext |-> ext, chOff |-> chOff, chExt |-> chExt, rot |-> rot]

\* p:sp: the name of p:cNvPr, p:spPr/a:xfrm, the prst of a:prstGeom ("" for
\* none), whether p:spPr has a:custGeom, the txBox of p:cNvSpPr, the type
\* and the idx of p:ph ("" for none).
SpPh(name, xfrm, prst, custGeom, txBox, phType, idx) ==
    [tag |-> "p:sp", name |-> name, xfrm |-> xfrm, prst |-> prst,
     custGeom |-> custGeom, txBox |-> txBox, phType |-> phType, idx |-> idx]

\* A p:sp with a p:txXfrm, as the shapes of a diagram drawing have: the
\* rot of the p:txXfrm.
SpTxXfrm(sp, rot) == sp @@ [txXfrm |-> [rot |-> rot]]

\* getTextByPathList(node, ['p:txXfrm'])
TxXfrm(node) == IF "txXfrm" \in DOMAIN node THEN node.txXfrm ELSE Undefined

\* A p:sp whose p:ph, if any, has no idx.
Sp(name, xfrm, prst, custGeom, txBox, phType) ==
    SpPh(name, xfrm, prst, custGeom, txBox, phType, "")

\* p:cxnSp: whether p:nvCxnSpPr/p:nvPr has a p:ph.
CxnSp(name, xfrm, prst, hasPh) ==
    [tag |-> "p:cxnSp", name |-> name, xfrm |-> xfrm, prst |-> prst, hasPh |-> hasPh]

\* p:pic: the r:embed of its a:blip; the r:link of a:videoFile and of
\* a:audioFile ("" for none).
Pic(xfrm, embed, videoLink, audioLink) ==
    [tag |-> "p:pic", xfrm |-> xfrm, embed |-> embed,
     videoLink |-> videoLink, audioLink |-> audioLink]

\* p:graphicFrame: the uri of a:graphicData, p:xfrm, the r:id of c:chart.
GraphicFrame(uri, xfrm, rid) ==
    [tag |-> "p:graphicFrame", uri |-> uri, xfrm |-> xfrm, rid |-> rid]

TableUri   == "http://schemas.openxmlformats.org/drawingml/2006/table"
ChartUri   == "http://schemas.openxmlformats.org/drawingml/2006/chart"
DiagramUri == "http://schemas.openxmlformats.org/drawingml/2006/diagram"
OleUri     == "http://schemas.openxmlformats.org/presentationml/2006/ole"

\* A table p:graphicFrame: the firstRow of a:tblPr and its a:tableStyleId
\* ("" for none).
TableFrame(xfrm, firstRow, tableStyleId) ==
    [tag |-> "p:graphicFrame", uri |-> TableUri, xfrm |-> xfrm, rid |-> "",
     firstRow |-> firstRow, tableStyleId |-> tableStyleId]

\* p:grpSp: a:xfrm of p:grpSpPr (Undefined when it has none) and the
\* drawable children in document order.
GrpSp(xfrm, children) == [tag |-> "p:grpSp", xfrm |-> xfrm, children |-> children]

\* mc:AlternateContent: its mc:Fallback, read as a group node.
AlternateContent(fallback) == [tag |-> "mc:AlternateContent", fallback |-> fallback]


(***************************************************************************)
(* The parsed tree.  readXml (./readXmlFile) gives an element as an object *)
(* keyed by the tag names of its children: a tag that occurs once holds    *)
(* the child, a tag that occurs several times holds the array of those     *)
(* children.  The keys are in the order of their first occurrence.         *)
(***************************************************************************)
\* The children in the order `for (nodeKey in node)` and the inner
\* `for (item of node[nodeKey])` reach them.
RECURSIVE ForInOrder(_)
ForInOrder(children) ==
    IF children = <<>> THEN <<>>
    ELSE LET key == Head(children).tag
         IN  SelectSeq(children, LAMBDA c : c.tag = key)
             \o ForInOrder(SelectSeq(children, LAMBDA c : c.tag # key))

\* The values the loops over a p:spTree or a p:grpSp reach: p:nvGrpSpPr and
\* p:grpSpPr come first in the element, then its drawable children.
TreeEntries(children) ==
    <<[tag |-> "p:nvGrpSpPr"], [tag |-> "p:grpSpPr"]>> \o ForInOrder(children)

\* What the path [..., 'p:sp'] reads of an element with these p:sp
\* children: nothing, the one child, or the array of them.
IsArray(children) == Len(children) >= 2

(***************************************************************************)
(* The values the handlers return.                                         *)
(***************************************************************************)
\* A TypeError thrown by a property read of undefined or by for-of over a
\* value that is not iterable.
Throw == [throw |-> "TypeError"]

IsThrow(v) == "throw" \in DOMAIN v

\* The Promise an async function returns, and what it settles to.
Promise(v) == [promise |-> v]

IsPromise(v) == "promise" \in DOMAIN v

\* await v
Await(v) == IF IsPromise(v) THEN v.promise ELSE v

\* The object {}.
EmptyObject == [object |-> "{}"]

\* if (ret): undefined and null are the falsy values a handler returns.
Truthy(v) == v # Undefined

\* slideResObj of the slide: rId -> target.  rId9 is in no relationship
\* file.
MediaResObj ==
    [r \in {"rId2", "rId4", "rId5", "rId6", "rId7", "rId8", "rId10"} |->
        CASE r = "rId2" -> [name |-> "ppt/media/image1", ext |-> "png"]
          [] r = "rId4" -> [name |-> "ppt/media/media1", ext |-> "mp4"]
          [] r = "rId5" -> [name |-> "ppt/media/media2", ext |-> "mp3"]
          [] r = "rId8" -> [name |-> "ppt/media/media3", ext |-> "avi"]
          [] r = "rId10" -> [name |-> "ppt/media/media4", ext |-> "aac"]
          [] r = "rId6" -> [name |-> "ppt/charts/chart1", ext |-> "xml"]
          [] r = "rId7" -> [name |-> "ppt/charts/chart2", ext |-> "xml"]]

\* getPosition(xfrm, undefined, undefined) (./position): a:off in points, 0
\* without it.
getPosition(xfrm) ==
    IF xfrm = Undefined THEN [left |-> Rat(0, 1), top |-> Rat(0, 1)]
    ELSE [left |-> Points(xfrm.off[1]), top |-> Points(xfrm.off[2])]

\* getSize(xfrm, undefined, undefined) (./position): a:ext in points, 0
\* without it.
getSize(xfrm) ==
    IF xfrm = Undefined THEN [width |-> Rat(0, 1), height |-> Rat(0, 1)]
    ELSE [width |-> Points(xfrm.ext[1]), height |-> Points(xfrm.ext[2])]

\* The first a:xfrm of the chain slide, layout, master (./position: "the
\* first node in the chain that provides a:off wins").
InheritedXfrm(slideXfrmNode, slideLayoutXfrmNode, slideMasterXfrmNode) ==
    IF slideXfrmNode # Undefined THEN slideXfrmNode
    ELSE IF slideLayoutXfrmNode # Undefined THEN slideLayoutXfrmNode
    ELSE slideMasterXfrmNode

\* getTextByPathList(spNode, ['p:spPr', 'a:xfrm']) and
\* getTextByPathList(spNode, ['p:nvSpPr', 'p:nvPr', 'p:ph', 'attrs', 'type'])
\* of a node that may be undefined.
SpXfrm(spNode) == IF spNode = Undefined THEN Undefined ELSE spNode.xfrm

SpPhType(spNode) == IF spNode = Undefined THEN "" ELSE spNode.phType

\* warpObj['slideLayoutTables'] and warpObj['slideMasterTables']: the
\* placeholders of the layout and of the master by type and by idx.  The
\* layout has a title, a body placeholder at idx 10 and a placeholder
\* without a type at idx 11; the master has a title, and a date and a
\* footer placeholder at idx 10 and 11.
SlideLayoutTables ==
    [typeTable |->
        ("title" :> SpPh("Title Placeholder 1",
                         Xfrm(<<914400, 457200>>, <<9144000, 914400>>, Absent, FALSE),
                         "", FALSE, FALSE, "title", "")),
     idxTable |->
        ("10" :> SpPh("Text Placeholder 2",
                      Xfrm(<<914400, 1828800>>, <<9144000, 3657600>>, Absent, FALSE),
                      "", FALSE, FALSE, "body", "10")
         @@ "11" :> SpPh("Placeholder 3", Undefined, "", FALSE, FALSE, "", "11"))]

SlideMasterTables ==
    [typeTable |->
        ("title" :> SpPh("Title Placeholder 1",
                         Xfrm(<<457200, 457200>>, <<10058400, 914400>>, Absent, FALSE),
                         "", FALSE, FALSE, "title", "")),
     idxTable |->
        ("10" :> SpPh("Date Placeholder 4",
                      Xfrm(<<457200, 6400800>>, <<2743200, 365760>>, Absent, FALSE),
                      "", FALSE, FALSE, "dt", "10")
         @@ "11" :> SpPh("Footer Placeholder 5",
                         Xfrm(<<3657600, 6400800>>, <<4114800, 365760>>, Absent, FALSE),
                         "", FALSE, FALSE, "ftr", "11"))]

\* table[key] of an object: undefined for a key it does not have.
TableEntry(table, key) == IF key \in DOMAIN table THEN table[key] ELSE Undefined

\* getTextByPathList(xfrmNode, ['attrs', 'rot']) and the flips.
XfrmRot(xfrm) == IF xfrm = Undefined THEN Absent ELSE xfrm.rot

XfrmFlipH(xfrm) == IF xfrm = Undefined THEN FALSE ELSE xfrm.flipH

\* getChartInfo(plotArea) (./chart): the chart of the part, or nothing when
\* the plot area holds no chart kind it knows.  chart1 is a bar chart,
\* chart2 is of a kind the helper does not know.
getChartInfo(path) ==
    IF path.name = "ppt/charts/chart1"
    THEN [type |-> "barChart", data |-> <<>>]
    ELSE Undefined

\* genShape: the fields left, top, width, height, isFlipV, isFlipH, rotate,
\* name, type, shapType, path and isVertical of its record (the border, the
\* fill, the text body, the shadow and the alignment are left out).  In the
\* text record `rotate: txtRotate` replaces the rotation of the shape: with
\* a p:txXfrm that has no rot txtRotate is never assigned, and the record
\* has no rotate to read (the property is undefined).
genShape(node, slideLayoutSpNode, slideMasterSpNode, name, type) ==
    LET rotate == angleToDegrees(XfrmRot(node.xfrm))
        xfrmNode == InheritedXfrm(node.xfrm, SpXfrm(slideLayoutSpNode),
                                  SpXfrm(slideMasterSpNode))
        data == [left     |-> getPosition(xfrmNode).left,
                 top      |-> getPosition(xfrmNode).top,
                 width    |-> getSize(xfrmNode).width,
                 height   |-> getSize(xfrmNode).height,
                 isFlipV  |-> FALSE,
                 isFlipH  |-> XfrmFlipH(node.xfrm),
                 rotate   |-> rotate,
                 name     |-> name]
        custShapType == node.tag = "p:sp" /\ node.custGeom
        txtXframeNode == TxXfrm(node)
        text == [type |-> "text", isVertical |-> FALSE]
    IN  IF custShapType /\ type # "diagram"
        THEN IF node.xfrm = Undefined
             THEN Throw
             ELSE data @@ [type |-> "shape", shapType |-> "custom",
                           path |-> <<Points(node.xfrm.ext[1]), Points(node.xfrm.ext[2])>>]
        ELSE IF node.prst # "" /\ (type = "obj" \/ type = "")
             THEN data @@ [type |-> "shape", shapType |-> node.prst]
             ELSE IF txtXframeNode = Undefined
             THEN data @@ text
             ELSE IF txtXframeNode.rot.present
             THEN [rotate |-> angleToDegrees(txtXframeNode.rot) + 90] @@ data @@ text
             ELSE [f \in DOMAIN data \ {"rotate"} |-> data[f]] @@ text

\* A lookup of the layout node by idx first, by type for a p:ph without idx.
SlideLayoutSpNodeIdxFirst(node) ==
    IF node.idx # "" THEN TableEntry(SlideLayoutTables.idxTable, node.idx)
    ELSE IF node.phType # "" THEN TableEntry(SlideLayoutTables.typeTable, node.phType)
    ELSE Undefined

\* processSpNode: the nodes of the layout and of the master behind the
\* shape, by the type of its p:ph, or by its idx when it has no type.
SlideLayoutSpNode(node) ==
    IF node.phType # "" THEN TableEntry(SlideLayoutTables.typeTable, node.phType)
    ELSE IF node.idx # "" THEN TableEntry(SlideLayoutTables.idxTable, node.idx)
    ELSE Undefined

SlideMasterSpNode(node) ==
    IF node.phType # "" THEN TableEntry(SlideMasterTables.typeTable, node.phType)
    ELSE IF node.idx # "" THEN TableEntry(SlideMasterTables.idxTable, node.idx)
    ELSE Undefined

\* A processSpNode that asks the layout and the master before txBox.
SpTypePlaceholderFirst(node, source) ==
    LET own       == node.phType
        inherited == IF own # "" THEN own
                     ELSE IF SpPhType(SlideLayoutSpNode(node)) # ""
                          THEN SpPhType(SlideLayoutSpNode(node))
                          ELSE SpPhType(SlideMasterSpNode(node))
        txBoxType == IF inherited # "" THEN inherited
                     ELSE IF node.txBox THEN "text" ELSE ""
    IN  IF txBoxType # "" THEN txBoxType
        ELSE IF source = "diagramBg" THEN "diagram" ELSE "obj"

\* processSpNode: the type it passes to genShape.
SpType(node, source) ==
    LET own        == node.phType
        txBoxType  == IF own # "" THEN own
                      ELSE IF node.txBox THEN "text" ELSE ""
        layoutType == IF txBoxType # "" THEN txBoxType
                      ELSE SpPhType(SlideLayoutSpNode(node))
        masterType == IF layoutType # "" THEN layoutType
                      ELSE SpPhType(SlideMasterSpNode(node))
    IN  IF masterType # "" THEN masterType
        ELSE IF source = "diagramBg" THEN "diagram" ELSE "obj"

\* processSpNode(node, warpObj, source): the Promise genShape returns.
processSpNode(node, source) ==
    Promise(genShape(node, SlideLayoutSpNode(node), SlideMasterSpNode(node),
                     node.name, SpType(node, source)))

\* processCxnSpNode(node, warpObj): with a p:ph it reads
\* node['p:nvSpPr']['p:nvPr'], and a p:cxnSp has no p:nvSpPr.
processCxnSpNode(node) ==
    IF node.hasPh THEN Throw
    ELSE Promise(genShape(node, Undefined, Undefined, node.name, ""))

\* The extensions processPicNode reads a video and an audio file for.
VideoFileExts == {"mp4", "webm", "ogg"}
AudioFileExts == {"mp3", "wav", "ogg"}

\* videoBlob, audioBlob: made of the bytes of the file when its extension
\* is one that is read, left undefined otherwise.
MediaBlob(target, exts) == IF target.ext \in exts THEN target ELSE Undefined

\* A p:pic whose media file is not read gives no record.
processPicNodeDropsSkipped(node) ==
    LET geometry == [top    |-> getPosition(node.xfrm).top,
                     left   |-> getPosition(node.xfrm).left,
                     width  |-> getSize(node.xfrm).width,
                     height |-> getSize(node.xfrm).height,
                     rotate |-> angleToDegrees(XfrmRot(node.xfrm))]
        bad(rid) == rid # "" /\ rid \notin DOMAIN MediaResObj
    IN  IF node.embed \notin DOMAIN MediaResObj \/ node.xfrm = Undefined
           \/ bad(node.videoLink) \/ bad(node.audioLink)
        THEN Promise(Throw)
        ELSE IF node.videoLink # ""
        THEN IF MediaResObj[node.videoLink].ext \in VideoFileExts
             THEN Promise(geometry @@ [type |-> "video", blob |-> MediaResObj[node.videoLink]])
             ELSE Promise(Undefined)
        ELSE IF node.audioLink # ""
        THEN IF MediaResObj[node.audioLink].ext \in AudioFileExts
             THEN Promise(geometry @@ [type |-> "audio", blob |-> MediaResObj[node.audioLink]])
             ELSE Promise(Undefined)
        ELSE Promise(geometry @@ [type |-> "image",
                                  src |-> DataUrl(MediaResObj[node.embed]),
                                  isFlipV |-> FALSE,
                                  isFlipH |-> XfrmFlipH(node.xfrm)])

\* processPicNode(node, warpObj, source) for source 'slide' and media
\* files of the archive.
processPicNode(node) ==
    LET geometry == [top    |-> getPosition(node.xfrm).top,
                     left   |-> getPosition(node.xfrm).left,
                     width  |-> getSize(node.xfrm).width,
                     height |-> getSize(node.xfrm).height,
                     rotate |-> angleToDegrees(XfrmRot(node.xfrm))]
        bad(rid) == rid # "" /\ rid \notin DOMAIN MediaResObj
    IN  IF node.embed \notin DOMAIN MediaResObj \/ node.xfrm = Undefined
           \/ bad(node.videoLink) \/ bad(node.audioLink)
        THEN Promise(Throw)
        ELSE IF node.videoLink # ""
        THEN Promise(geometry @@
                     [type |-> "video",
                      blob |-> MediaBlob(MediaResObj[node.videoLink], VideoFileExts)])
        ELSE IF node.audioLink # ""
        THEN Promise(geometry @@
                     [type |-> "audio",
                      blob |-> MediaBlob(MediaResObj[node.audioLink], AudioFileExts)])
        ELSE Promise(geometry @@ [type |-> "image",
                                  src |-> DataUrl(MediaResObj[node.embed]),
                                  isFlipV |-> FALSE,
                                  isFlipH |-> XfrmFlipH(node.xfrm)])

\* genTable(node, warpObj) for a table with a:tblPr: its type and geometry
\* (the cells are left out).
genTable(node) ==
    [type   |-> "table",
     top    |-> getPosition(node.xfrm).top,
     left   |-> getPosition(node.xfrm).left,
     width  |-> getSize(node.xfrm).width,
     height |-> getSize(node.xfrm).height,
     data   |-> <<>>]

\* genTable: a:tblStyleLst/a:tblStyle of ppt/tableStyles.xml as
\* processSingleSlide read it, two styles.
TableStylesPart ==
    <<[styleId |-> "{5C22544A}", tblStylAttrObj |-> Undefined],
      [styleId |-> "{073A0DAA}", tblStylAttrObj |-> Undefined]>>

\* genTable: thisTblStyle is the last style of the list with the
\* a:tableStyleId of the table, and
\* `if (thisTblStyle) thisTblStyle['tblStylAttrObj'] = tblStylAttrObj`.
genTableStyles(node, styles) ==
    LET tbleStyleId == IF "tableStyleId" \in DOMAIN node THEN node.tableStyleId ELSE ""
        matching == {k \in 1..Len(styles) : styles[k].styleId = tbleStyleId}
        thisTblStyle == CHOOSE k \in matching : \A m \in matching : m <= k
    IN  IF tbleStyleId = "" \/ matching = {} THEN styles
        ELSE [styles EXCEPT ![thisTblStyle].tblStylAttrObj =
                 [isFrstRowAttr |-> IF node.firstRow THEN 1 ELSE 0]]

\* await genChart(node, warpObj)
genChart(node) ==
    IF node.rid \notin DOMAIN MediaResObj THEN Throw
    ELSE LET chart == getChartInfo(MediaResObj[node.rid])
         IN  IF chart = Undefined THEN EmptyObject
             ELSE [type      |-> "chart",
                   top       |-> getPosition(node.xfrm).top,
                   left      |-> getPosition(node.xfrm).left,
                   width     |-> getSize(node.xfrm).width,
                   height    |-> getSize(node.xfrm).height,
                   data      |-> chart.data,
                   chartType |-> chart.type]

\* genDiagram(node, warpObj): dgmDrwSpArray is the p:sp of the drawing part
\* (undefined, one node, or an array); each processSpNode result is pushed
\* as it is returned.
genDiagram(node, dgmSps) ==
    IF dgmSps # <<>> /\ ~IsArray(dgmSps) THEN Throw
    ELSE [type     |-> "diagram",
          left     |-> getPosition(node.xfrm).left,
          top      |-> getPosition(node.xfrm).top,
          width    |-> getSize(node.xfrm).width,
          height   |-> getSize(node.xfrm).height,
          elements |-> [i \in 1..Len(dgmSps) |-> processSpNode(dgmSps[i], "diagramBg")]]

\* await processGraphicFrameNode(node, warpObj, source)
processGraphicFrameNode(node, dgmSps) ==
    CASE node.uri = TableUri   -> genTable(node)
      [] node.uri = ChartUri   -> genChart(node)
      [] node.uri = DiagramUri -> genDiagram(node, dgmSps)
      [] OTHER                 -> Undefined

\* chcx / cx in the place of cx / chcx.
GroupScaleInverted(c, chc) == RatDiv(chc, c)

\* const ws = cx / chcx, const hs = cy / chcy
GroupScale(c, chc) == RatDiv(c, chc)

\* element.left * ws, without the child offset.
RemapOffsetUnshifted(v, chv, scale) == RatMul(v, scale)

\* (element.left - chx) * ws
RemapOffset(v, chv, scale) == RatMul(RatSub(v, chv), scale)

\* element.width * ws
RemapExtent(v, scale) == RatMul(v, scale)

\* element.left of an element that may have no such property.
Geometry(element, f) == IF f \in DOMAIN element THEN element[f] ELSE NonFinite

\* element => ({...element, left: ..., top: ..., width: ..., height: ...})
RemapElement(element, chx, chy, ws, hs) ==
    [left   |-> RemapOffset(Geometry(element, "left"), chx, ws),
     top    |-> RemapOffset(Geometry(element, "top"), chy, hs),
     width  |-> RemapExtent(Geometry(element, "width"), ws),
     height |-> RemapExtent(Geometry(element, "height"), hs)] @@ element

\* Whether one of the awaited results is a throw.
AnyThrow(rets) == \E i \in 1..Len(rets) : IsThrow(rets[i])

\* if (ret) elements.push(ret), over the awaited results.
Pushed(rets) == SelectSeq(rets, Truthy)

RECURSIVE processNodesInSlide(_, _, _, _)
RECURSIVE processGroupSpNode(_, _, _)

\* await processGroupSpNode(node, warpObj, source)
processGroupSpNode(node, source, dgmSps) ==
    IF node = Undefined \/ node.xfrm = Undefined THEN Undefined
    ELSE LET xfrmNode == node.xfrm
             x    == Points(xfrmNode.off[1])
             y    == Points(xfrmNode.off[2])
             chx  == Points(xfrmNode.chOff[1])
             chy  == Points(xfrmNode.chOff[2])
             cx   == Points(xfrmNode.ext[1])
             cy   == Points(xfrmNode.ext[2])
             chcx == Points(xfrmNode.chExt[1])
             chcy == Points(xfrmNode.chExt[2])
             ws   == GroupScale(cx, chcx)
             hs   == GroupScale(cy, chcy)
             entries == TreeEntries(node.children)
             rets == [i \in 1..Len(entries) |->
                         processNodesInSlide(entries[i].tag, entries[i], source, dgmSps)]
             children == Pushed(rets)
         IN  IF AnyThrow(rets) THEN Throw
             ELSE [type     |-> "group",
                   top      |-> y,
                   left     |-> x,
                   width    |-> cx,
                   height   |-> cy,
                   rotate   |-> angleToDegrees(xfrmNode.rot),
                   elements |-> [i \in 1..Len(children) |->
                                    RemapElement(children[i], chx, chy, ws, hs)]]

\* await processNodesInSlide(nodeKey, nodeValue, warpObj, source)
processNodesInSlide(nodeKey, nodeValue, source, dgmSps) ==
    CASE nodeKey = "p:sp"           -> Await(processSpNode(nodeValue, source))
      [] nodeKey = "p:cxnSp"        -> Await(processCxnSpNode(nodeValue))
      [] nodeKey = "p:pic"          -> Await(processPicNode(nodeValue))
      [] nodeKey = "p:graphicFrame" -> processGraphicFrameNode(nodeValue, dgmSps)
      [] nodeKey = "p:grpSp"        -> processGroupSpNode(nodeValue, source, dgmSps)
      [] nodeKey = "mc:AlternateContent" ->
            processGroupSpNode(nodeValue.fallback, source, dgmSps)
      [] OTHER                      -> Undefined

(***************************************************************************)
(* The inputs of the dispatcher.                                           *)
(***************************************************************************)
\* 500pt, 250pt, 100pt x 100pt
XfrmA == Xfrm(<<6350000, 3175000>>, <<1270000, 1270000>>, Absent, FALSE)
\* 72pt, 72pt, 72pt x 36pt, a quarter turn, flipped
XfrmB == Xfrm(<<914400, 914400>>, <<914400, 457200>>, Attr(5400000), TRUE)
\* 150.5pt, 75pt, 1pt x 0.5pt
XfrmC == Xfrm(<<1911350, 952500>>, <<12700, 6350>>, Absent, FALSE)

SpRect    == Sp("Rectangle 1", XfrmA, "rect", FALSE, FALSE, "")
SpTextBox == Sp("TextBox 2", XfrmB, "", FALSE, TRUE, "")
SpSmall   == Sp("Oval 3", XfrmC, "ellipse", FALSE, FALSE, "")
PicImage  == Pic(XfrmB, "rId2", "", "")
FrameChartUnknown == GraphicFrame(ChartUri, XfrmA, "rId7")
FrameDiagram      == GraphicFrame(DiagramUri, XfrmA, "")

LeafPool ==
    {SpRect, SpTextBox, SpSmall, PicImage, FrameChartUnknown, FrameDiagram,
     Sp("Title 4", Undefined, "", FALSE, FALSE, "title"),
     Sp("Freeform 5", XfrmA, "", TRUE, FALSE, ""),
     SpPh("Freeform 12", Undefined, "", TRUE, FALSE, "", "10"),
     CxnSp("Connector 13", XfrmA, "", FALSE),
     SpPh("Title 17", Undefined, "", FALSE, FALSE, "title", "10"),
     SpTxXfrm(Sp("Text 14", XfrmB, "", FALSE, FALSE, ""), Attr(2700000)),
     SpTxXfrm(Sp("Text 15", XfrmB, "", FALSE, FALSE, ""), Absent),
     SpTxXfrm(Sp("Text 16", XfrmB, "roundRect", FALSE, TRUE, ""), Attr(0)),
     SpPh("TextBox 8", XfrmA, "rect", FALSE, TRUE, "", "10"),
     SpPh("Content 9", Undefined, "rect", FALSE, FALSE, "", "10"),
     SpPh("Footer 10", Undefined, "rect", FALSE, FALSE, "", "11"),
     SpPh("Shape 11", XfrmB, "rect", FALSE, FALSE, "", "12"),
     CxnSp("Connector 6", XfrmA, "line", FALSE),
     CxnSp("Connector 7", XfrmA, "line", TRUE),
     Pic(XfrmA, "rId9", "", ""),
     Pic(XfrmA, "rId2", "rId4", ""),
     Pic(XfrmA, "rId2", "", "rId5"),
     Pic(XfrmB, "rId2", "rId8", ""),
     Pic(XfrmB, "rId2", "", "rId10"),
     GraphicFrame(TableUri, XfrmA, ""),
     TableFrame(XfrmA, TRUE, "{073A0DAA}"),
     TableFrame(XfrmA, FALSE, "{5940675A}"),
     GraphicFrame(ChartUri, XfrmA, "rId6"),
     GraphicFrame(ChartUri, XfrmA, "rId9"),
     GraphicFrame(OleUri, XfrmA, "")}

\* Offsets and extents of groups: 0, (100pt, 50pt), (1000pt, 500pt),
\* (2000pt, 1000pt).
GrpOffPool == {<<0, 0>>, <<1270000, 635000>>}
GrpExtPool == {<<12700000, 6350000>>, <<25400000, 12700000>>}

GrpXfrmPool ==
    {GrpXfrm(off, ext, chOff, chExt, Absent) :
        off \in GrpOffPool, ext \in GrpExtPool,
        chOff \in GrpOffPool, chExt \in GrpExtPool \cup {<<0, 0>>}}

\* ext = (2000, 1000), chExt = (1000, 500), off = chOff = (0, 0)
GrpXfrmDouble ==
    GrpXfrm(<<0, 0>>, <<25400000, 12700000>>, <<0, 0>>, <<12700000, 6350000>>, Absent)

GrpChildrenPool ==
    {<<SpRect>>, <<SpSmall, PicImage, SpTextBox>>, <<FrameChartUnknown>>,
     <<TableFrame(XfrmA, TRUE, "{5C22544A}"), SpRect>>,
     <<GrpSp(GrpXfrmDouble, <<SpRect>>), SpSmall>>}

GroupPool ==
    {GrpSp(xfrm, children) : xfrm \in GrpXfrmPool, children \in GrpChildrenPool}
    \cup {GrpSp(Undefined, <<SpRect>>)}

AlternateContentPool ==
    {AlternateContent(Undefined),
     AlternateContent([xfrm |-> Undefined, children |-> <<PicImage>>]),
     AlternateContent([xfrm |-> GrpXfrmDouble, children |-> <<SpRect>>])}

\* The nodes of the trees with several children.
MixedPool ==
    {SpRect, SpTextBox, PicImage, FrameChartUnknown, FrameDiagram,
     GrpSp(GrpXfrmDouble, <<SpRect, PicImage, SpSmall>>)}

SpTreePool ==
    SeqsUpTo(MixedPool, MaxNodes)
    \cup {<<n>> : n \in LeafPool \cup GroupPool \cup AlternateContentPool}

\* p:drawing/p:spTree/p:sp of the diagram drawing part: none, one, two.
DiagramPool == {<<>>, <<SpRect>>, <<SpRect, SpTextBox>>}

(***************************************************************************)
(* parse(): the loop over the slides, src/src/utils.js 243-254             *)
(***************************************************************************)
\* processSingleSlide: the loops of 529-541 over the shape tree, the
\* record it returns (without its fill) or the error that leaves it.
RECURSIVE SlideElements(_, _, _)
SlideElements(entries, dgmSps, acc) ==
    IF entries = <<>> THEN [elements |-> acc]
    ELSE LET ret == processNodesInSlide(Head(entries).tag, Head(entries), "slide", dgmSps)
         IN  IF IsThrow(ret) THEN Throw
             ELSE SlideElements(Tail(entries), dgmSps,
                                IF Truthy(ret) THEN Append(acc, ret) ELSE acc)

processSingleSlide(tree, dgmSps) == SlideElements(TreeEntries(tree), dgmSps, <<>>)

\* The shape trees of the slide parts of a package: a shape; a shape and a
\* diagram frame; a picture whose r:embed names no relationship.
SlidePartPool ==
    {<<SpRect>>, <<SpRect, FrameDiagram>>, <<Pic(XfrmA, "rId9", "", "")>>}

\* The shapes of the diagram drawing part of a slide with a diagram.
SlidePartDiagram == <<SpRect, SpTextBox>>

\* One iteration of the loop: await processSingleSlide, then slides.push.
\* Reading a part of the archive may fail, and a handler of the slide may
\* throw; either error leaves parse().
ProcessSingleSlide ==
    /\ pc = "loop"
    /\ cursor <= Len(filesInfo.slides)
    /\ \E readable \in BOOLEAN, tree \in SlidePartPool :
          LET singleSlide == processSingleSlide(tree, SlidePartDiagram) IN
          IF ~readable
          THEN /\ pc' = "rejected"
               /\ outcome' = [state |-> "rejected", error |-> "part unreadable"]
               /\ UNCHANGED <<slides, cursor, partsRead>>
          ELSE IF IsThrow(singleSlide)
          THEN /\ pc' = "rejected"
               /\ outcome' = [state |-> "rejected", error |-> "TypeError"]
               /\ partsRead' = Append(partsRead, filesInfo.slides[cursor])
               /\ UNCHANGED <<slides, cursor>>
          ELSE /\ slides' = Append(slides, SlideRecord(filesInfo.slides[cursor], singleSlide))
               /\ partsRead' = Append(partsRead, filesInfo.slides[cursor])
               /\ cursor' = cursor + 1
               /\ UNCHANGED <<pc, outcome>>
    /\ UNCHANGED <<contentTypes, presRels, sldSz, filesInfo, size, themeContent>>
    /\ ParseOnly

ReturnSlides ==
    /\ pc = "loop"
    /\ cursor > Len(filesInfo.slides)
    /\ pc' = "resolved"
    /\ outcome' = [state |-> "resolved", slides |-> slides, size |-> size]
    /\ UNCHANGED <<contentTypes, presRels, sldSz, filesInfo, size, themeContent,
                   cursor, slides, partsRead>>
    /\ ParseOnly

NextParse ==
    \/ GetContentTypes
    \/ GetSlideInfo
    \/ LoadTheme
    \/ ProcessSingleSlide
    \/ ReturnSlides

SpecParse == InitParse /\ [][NextParse]_vars

(***************************************************************************)
(* processSingleSlide from its loop over the shape tree on:                *)
(* src/src/utils.js 527-546                                                *)
(***************************************************************************)
InitSlide ==
    /\ nodes \in SpTreePool
    /\ digramFileContent \in DiagramPool
    /\ nodeCursor = 1
    /\ elements = <<>>
    /\ slidePc = "looping"
    /\ slideReturn = Undefined
    /\ inFlight = 0
    /\ tableStyles = TableStylesPart
    /\ ParseIdle
    /\ FillIdle
    /\ GradIdle
    /\ PathIdle
    /\ IndexIdle
    /\ RelsIdle

\* The handlers a returned value holds as Promises: they were started and
\* not awaited, each suspended at its first await.
RECURSIVE UnawaitedHandlers(_)
UnawaitedHandlers(ret) ==
    IF IsPromise(ret) THEN 1
    ELSE IF "elements" \in DOMAIN ret
    THEN LET RECURSIVE Sum(_)
             Sum(k) == IF k = 0 THEN 0
                       ELSE UnawaitedHandlers(ret.elements[k]) + Sum(k - 1)
         IN  Sum(Len(ret.elements))
    ELSE 0

\* The table frames the handlers of a node reach, in the order they reach
\* them: the node itself, or the tables among the children of a group.
RECURSIVE TablesOf(_)
TablesOf(node) ==
    IF node = Undefined THEN <<>>
    ELSE IF "children" \in DOMAIN node
    THEN IF node.xfrm = Undefined THEN <<>>
         ELSE LET entries == TreeEntries(node.children)
                  RECURSIVE Concat(_)
                  Concat(k) == IF k = 0 THEN <<>>
                               ELSE Concat(k - 1) \o TablesOf(entries[k])
              IN  Concat(Len(entries))
    ELSE IF node.tag = "mc:AlternateContent" THEN TablesOf(node.fallback)
    ELSE IF node.tag = "p:graphicFrame" /\ node.uri = TableUri THEN <<node>>
    ELSE <<>>

RECURSIVE AfterTables(_, _)
AfterTables(tables, styles) ==
    IF tables = <<>> THEN styles
    ELSE AfterTables(Tail(tables), genTableStyles(Head(tables), styles))

\* One value of the loops over nodes: await processNodesInSlide(...) and
\* `if (ret) elements.push(ret)`; a throw rejects processSingleSlide.
ForNodeKeyInNodes ==
    /\ slidePc = "looping"
    /\ nodeCursor <= Len(TreeEntries(nodes))
    /\ LET node == TreeEntries(nodes)[nodeCursor]
           ret  == processNodesInSlide(node.tag, node, "slide", digramFileContent)
       IN  IF IsThrow(ret)
           THEN /\ slidePc' = "rejected"
                /\ UNCHANGED <<elements, nodeCursor, inFlight, tableStyles>>
           ELSE /\ elements' = IF Truthy(ret) THEN Append(elements, ret) ELSE elements
                /\ nodeCursor' = nodeCursor + 1
                /\ inFlight' = inFlight + UnawaitedHandlers(ret)
                /\ tableStyles' = AfterTables(TablesOf(node), tableStyles)
                /\ UNCHANGED slidePc
    /\ UNCHANGED <<nodes, digramFileContent, slideReturn>>
    /\ SlideOnly

\* return { fill: bgColor, elements }
ReturnSlide ==
    /\ slidePc = "looping"
    /\ nodeCursor > Len(TreeEntries(nodes))
    /\ slideReturn' = [elements |-> elements]
    /\ slidePc' = "resolved"
    /\ UNCHANGED <<nodes, digramFileContent, nodeCursor, elements, inFlight,
                   tableStyles>>
    /\ SlideOnly

\* A handler genDiagram started reaches its end: the genShape call passes
\* `await getSlideBackgroundFill(warpObj)` and returns.
GenShapeCompletes ==
    /\ inFlight > 0
    /\ inFlight' = inFlight - 1
    /\ UNCHANGED <<nodes, digramFileContent, nodeCursor, elements, slidePc,
                   slideReturn, tableStyles>>
    /\ SlideOnly

NextSlide ==
    \/ ForNodeKeyInNodes
    \/ ReturnSlide
    \/ GenShapeCompletes

SpecSlide == InitSlide /\ [][NextSlide]_vars

(***************************************************************************)
(* getTextByPathList: src/src/utils.js 84-95                               *)
(***************************************************************************)
\* The values of a parsed tree: undefined, null, strings, numbers, and
\* objects keyed by tag or attribute names.  A path that is an array holds
\* its keys.
JsNull == [null |-> TRUE]

JsString(str) == [string |-> str]

JsNumber(n) == [number |-> n]

JsObject(props) == [props |-> props]

JsArray(keys) == [array |-> keys]

\* !node
Falsy(v) == v \in {Undefined, JsNull, JsString(""), JsNumber(0)}

\* node[key] of a value that is not undefined or null: the property of an
\* object, undefined for a key it does not have and for a string or a
\* number.
Member(node, key) ==
    IF "props" \in DOMAIN node /\ key \in DOMAIN node.props
    THEN node.props[key]
    ELSE Undefined

PathTypeError == [throw |-> "Error of path type! path is not array."]

\* A loop that reads every key of path: it evaluates node[key] of a falsy
\* node, a TypeError for undefined and null.
RECURSIVE PathLoopToTheEnd(_, _, _)
PathLoopToTheEnd(node, keys, read) ==
    IF keys = <<>> THEN [ret |-> node, read |-> read]
    ELSE IF node \in {Undefined, JsNull} THEN [ret |-> Throw, read |-> read + 1]
    ELSE PathLoopToTheEnd(Member(node, Head(keys)), Tail(keys), read + 1)

\* for (const key of path) { node = node[key]; if (!node) return node }
\* return node
RECURSIVE PathLoop(_, _, _)
PathLoop(node, keys, read) ==
    IF keys = <<>> THEN [ret |-> node, read |-> read]
    ELSE LET next == Member(node, Head(keys))
         IN  IF Falsy(next) THEN [ret |-> next, read |-> read + 1]
             ELSE PathLoop(next, Tail(keys), read + 1)

\* One call: what it returns or throws, and the number of keys it read.
\* path.constructor of undefined or null is a TypeError.
PathCall(node, path) ==
    IF path \in {Undefined, JsNull} THEN [ret |-> Throw, read |-> 0]
    ELSE IF "array" \notin DOMAIN path THEN [ret |-> PathTypeError, read |-> 0]
    ELSE IF Falsy(node) THEN [ret |-> node, read |-> 0]
    ELSE PathLoop(node, path.array, 0)

getTextByPathList(node, path) == PathCall(node, path).ret

MaxPathLen == 3

PathKeys == {"a:xfrm", "a:off", "attrs"}

\* Trees: the falsy values, a string, and objects up to three levels deep
\* with present, absent, null and empty branches.
PathTreePool ==
    {Undefined, JsNull, JsNumber(0), JsString(""), JsString("text"),
     JsObject("attrs" :> JsString("1")),
     JsObject("a:xfrm" :> JsObject("a:off" :> JsObject("attrs" :> JsString("100")))),
     JsObject("a:xfrm" :> JsObject("a:off" :> JsString("") @@ "attrs" :> JsNumber(0))),
     JsObject("a:xfrm" :> JsNull @@ "a:off" :> JsObject("attrs" :> JsString("7"))),
     JsObject("a:xfrm" :> JsObject("attrs" :> JsObject("a:off" :> JsNumber(5))))}

\* Paths: the arrays of up to MaxPathLen keys, and values that are not
\* arrays.
PathArgPool ==
    {JsArray(keys) : keys \in SeqsUpTo(PathKeys, MaxPathLen)}
    \cup {Undefined, JsNull, JsString("a:xfrm"), JsObject("attrs" :> JsString("1"))}

InitPath ==
    /\ pathNode \in PathTreePool
    /\ pathArg \in PathArgPool
    /\ pathReturn = [state |-> "called"]
    /\ pathRead = 0
    /\ ParseIdle
    /\ FillIdle
    /\ GradIdle
    /\ SlideIdle
    /\ IndexIdle
    /\ RelsIdle

GetTextByPathList ==
    /\ pathReturn.state = "called"
    /\ LET call == PathCall(pathNode, pathArg)
       IN  /\ pathReturn' = IF IsThrow(call.ret)
                            THEN [state |-> "threw", value |-> call.ret]
                            ELSE [state |-> "returned", value |-> call.ret]
           /\ pathRead' = call.read
    /\ UNCHANGED <<pathNode, pathArg>>
    /\ PathOnly

NextPath == GetTextByPathList

SpecPath == InitPath /\ [][NextPath]_vars

(***************************************************************************)
(* indexNodes: src/src/utils.js 599-636                                    *)
(***************************************************************************)
\* A child of the shape tree of a layout or a master: its tag, the id of
\* its p:cNvPr and the idx and type of its p:ph ("" for none).  The
\* non-visual properties are in p:nvSpPr for a p:sp, in p:nvPicPr for a
\* p:pic, in p:nvCxnSpPr for a p:cxnSp, in p:nvGraphicFramePr for a
\* p:graphicFrame.
PhNode(tag, id, idx, phType) == [tag |-> tag, id |-> id, idx |-> idx, phType |-> phType]

\* targetNode['p:nvSpPr'] and the three attributes read under it
NvSpPrAttr(targetNode, attr) ==
    IF targetNode.tag = "p:sp" THEN targetNode[attr] ELSE ""

EmptyTable == [key \in {} |-> Undefined]

\* if (key) table[key] = targetNode
TableSet(table, key, targetNode) ==
    IF key # "" THEN (key :> targetNode) @@ table ELSE table

RECURSIVE IndexLoop(_, _)
IndexLoop(entries, tables) ==
    IF entries = <<>> THEN tables
    ELSE LET targetNode == Head(entries)
         IN  IF targetNode.tag \in {"p:nvGrpSpPr", "p:grpSpPr"}
             THEN IndexLoop(Tail(entries), tables)
             ELSE IndexLoop(Tail(entries),
                     [idTable   |-> TableSet(tables.idTable,
                                             NvSpPrAttr(targetNode, "id"), targetNode),
                      idxTable  |-> TableSet(tables.idxTable,
                                             NvSpPrAttr(targetNode, "idx"), targetNode),
                      typeTable |-> TableSet(tables.typeTable,
                                             NvSpPrAttr(targetNode, "phType"), targetNode)])

indexNodes(children) ==
    IndexLoop(TreeEntries(children),
              [idTable |-> EmptyTable, idxTable |-> EmptyTable, typeTable |-> EmptyTable])

MaxIndexNodes == 3

IndexNodePool ==
    {PhNode("p:sp", "2", "", "title"),
     PhNode("p:sp", "3", "10", "body"),
     PhNode("p:sp", "4", "10", ""),
     PhNode("p:sp", "5", "", ""),
     PhNode("p:pic", "6", "11", "pic"),
     PhNode("p:graphicFrame", "7", "", "")}

InitIndex ==
    /\ spTreeNode \in SeqsUpTo(IndexNodePool, MaxIndexNodes)
    /\ indexReturn = Undefined
    /\ ParseIdle
    /\ FillIdle
    /\ GradIdle
    /\ SlideIdle
    /\ PathIdle
    /\ RelsIdle

IndexNodes ==
    /\ indexReturn = Undefined
    /\ indexReturn' = indexNodes(spTreeNode)
    /\ UNCHANGED spTreeNode
    /\ IndexOnly

NextIndex == IndexNodes

SpecIndex == InitIndex /\ [][NextIndex]_vars

(***************************************************************************)
(* processSingleSlide, relationship loading: src/src/utils.js 355-421      *)
(***************************************************************************)
OfficeDocumentPrefix == "http://schemas.openxmlformats.org/officeDocument/2006/relationships/"
SlideLayoutRelType == "http://schemas.openxmlformats.org/officeDocument/2006/relationships/slideLayout"
SlideMasterRelType == "http://schemas.openxmlformats.org/officeDocument/2006/relationships/slideMaster"
ImageRelType       == "http://schemas.openxmlformats.org/officeDocument/2006/relationships/image"
HyperlinkRelType   == "http://schemas.openxmlformats.org/officeDocument/2006/relationships/hyperlink"
DiagramDrawingRelType == "http://schemas.microsoft.com/office/2007/relationships/diagramDrawing"

\* attrs.Type.replace(OfficeDocumentPrefix, '')
ReplacePrefix(type) ==
    CASE type = SlideLayoutRelType -> "slideLayout"
      [] type = SlideMasterRelType -> "slideMaster"
      [] type = ThemeRelType       -> "theme"
      [] type = ImageRelType       -> "image"
      [] type = HyperlinkRelType   -> "hyperlink"
      [] OTHER                     -> type

\* A Relationship element: attrs.Id, attrs.Type, and attrs.Target as the
\* flag "starts with ../" and what follows.
Relationship(id, type, up, path) ==
    [Id |-> id, Type |-> type, Target |-> [up |-> up, path |-> path]]

\* attrs.Target.replace('../', 'ppt/')
ReplaceUp(target) == [root |-> IF target.up THEN "ppt/" ELSE "", path |-> target.path]

\* ''
NoFilename == [root |-> "", path |-> ""]

\* { type: ..., target: ... }
ResEntry(item) == [type |-> ReplacePrefix(item.Type), target |-> ReplaceUp(item.Target)]

\* The relationship type whose target is the link of the part.
LinkRelType(part) ==
    CASE part = "slide"  -> SlideLayoutRelType
      [] part = "layout" -> SlideMasterRelType
      [] part = "master" -> ThemeRelType

\* One turn of for (const relationshipArrayItem of relationshipArray)
RelationshipCase(part, item, acc) ==
    IF item.Type = LinkRelType(part)
    THEN IF part = "master"
         THEN acc
         ELSE [acc EXCEPT !.filename = ReplaceUp(item.Target)]
    ELSE IF part = "slide" /\ item.Type = DiagramDrawingRelType
    THEN [acc EXCEPT !.diagramFilename = ReplaceUp(item.Target),
                     !.resObj = (item.Id :> ResEntry(item)) @@ @]
    ELSE [acc EXCEPT !.resObj = (item.Id :> ResEntry(item)) @@ @]

RECURSIVE RelationshipLoop(_, _, _)
RelationshipLoop(part, items, acc) ==
    IF items = <<>> THEN acc
    ELSE RelationshipLoop(part, Tail(items), RelationshipCase(part, Head(items), acc))

\* if (relationshipArray.constructor === Array) {...} else filename = ...
LoadRelationships(part, rels) ==
    LET empty == [filename |-> NoFilename, diagramFilename |-> NoFilename,
                  resObj |-> [id \in {} |-> Undefined]]
    IN  IF rels.array
        THEN RelationshipLoop(part, rels.items, empty)
        ELSE [empty EXCEPT !.filename = ReplaceUp(rels.items[1].Target)]

MaxRelationships == 2

RelationshipPool ==
    {Relationship("rId1", SlideLayoutRelType, TRUE, "slideLayouts/slideLayout1.xml"),
     Relationship("rId1", SlideMasterRelType, TRUE, "slideMasters/slideMaster1.xml"),
     Relationship("rId2", ImageRelType, TRUE, "media/image1.png"),
     Relationship("rId3", DiagramDrawingRelType, TRUE, "diagrams/drawing1.xml"),
     Relationship("rId4", ThemeRelType, TRUE, "theme/theme1.xml"),
     Relationship("rId5", HyperlinkRelType, FALSE, "https://example.com/")}

\* Relationships.Relationship as the XML reader gives it: the element
\* itself when there is one, an array otherwise; the one-element array is
\* the form the two are compared on.
RelationshipArrayPool ==
    {[array |-> FALSE, items |-> <<r>>] : r \in RelationshipPool}
    \cup {[array |-> TRUE, items |-> rs] :
             rs \in SeqsUpTo(RelationshipPool, MaxRelationships) \ {<<>>}}

InitRels ==
    /\ relsPart \in {"slide", "layout", "master"}
    /\ relationshipArray \in RelationshipArrayPool
    /\ relsReturn = Undefined
    /\ ParseIdle
    /\ FillIdle
    /\ GradIdle
    /\ SlideIdle
    /\ PathIdle
    /\ IndexIdle

LoadRelationshipsOfPart ==
    /\ relsReturn = Undefined
    /\ relsReturn' = LoadRelationships(relsPart, relationshipArray)
    /\ UNCHANGED <<relsPart, relationshipArray>>
    /\ RelsOnly

NextRels == LoadRelationshipsOfPart

SpecRels == InitRels /\ [][NextRels]_vars

(***************************************************************************)
(* processSingleSlide for a slide of pictures over a picture background:   *)
(* getSlideBackgroundFill (src/src/utils.js 526) and the loop over the     *)
(* nodes (529-541).  The two share no state, so the steps of the one are   *)
(* taken in any order with the steps of the other.                         *)
(***************************************************************************)
MediaPicPool ==
    {PicImage,
     Pic(XfrmA, "rId2", "rId4", ""),
     Pic(XfrmA, "rId2", "", "rId5"),
     Pic(XfrmB, "rId2", "rId8", ""),
     Pic(XfrmB, "rId2", "", "rId10")}

InitMedia ==
    /\ nodes \in SeqsUpTo(MediaPicPool, MaxShapes)
    /\ digramFileContent = <<>>
    /\ nodeCursor = 1
    /\ elements = <<>>
    /\ slidePc = "looping"
    /\ slideReturn = Undefined
    /\ inFlight = 0
    /\ tableStyles = TableStylesPart
    /\ slideBg \in {[bgPr |-> [NoFills EXCEPT !.blipFill = b] @@ [fills |-> {"a:blipFill"}]] :
                       b \in BlipFillPool}
    /\ layoutBg = Undefined
    /\ masterBg = Undefined
    /\ clrMapOvr = "none"
    /\ fillPc = "called"
    /\ pendingRead = Undefined
    /\ zipReads = <<>>
    /\ bgResult = Undefined
    /\ shapeFill = Undefined
    /\ bgCalls = 1
    /\ ParseIdle
    /\ GradIdle
    /\ PathIdle
    /\ IndexIdle
    /\ RelsIdle

NextMedia ==
    \/ GetSlideBackgroundFill
    \/ ZipFileAsync
    \/ ForNodeKeyInNodes
    \/ ReturnSlide

SpecMedia == InitMedia /\ [][NextMedia]_vars

(***************************************************************************)
(* C1.  When parse resolves, its slides array holds exactly one record per *)
(* slide part of [Content_Types].xml, and the records are in ascending     *)
(* order of the numeric suffix of their part names (slide2 before          *)
(* slide10), whatever the order of the Override entries and whatever the   *)
(* order of the entries of presentation.xml.rels.                          *)
(***************************************************************************)
C1_SlidesInNumericOrder ==
    outcome.state = "resolved" =>
        LET out == outcome.slides IN
        /\ Len(out) = Cardinality(SlideParts(contentTypes))
        /\ {out[i].part : i \in 1..Len(out)} = SlideParts(contentTypes)
        /\ \A i, j \in 1..Len(out) :
              i < j => DecimalValue(out[i].part.digits) < DecimalValue(out[j].part.digits)

\* slide10 is listed before slide2, and the slide relationships of
\* presentation.xml.rels are not in numeric order either.
C1_Witness ==
    /\ outcome.state = "resolved"
    /\ \E i, j \in 1..Len(contentTypes) :
          /\ i < j
          /\ contentTypes[i] = [ContentType |-> SlideCT, PartName |-> PartName("slides", <<1, 0>>)]
          /\ contentTypes[j] = [ContentType |-> SlideCT, PartName |-> PartName("slides", <<2>>)]
    /\ \E i, j \in 1..Len(presRels) :
          /\ i < j
          /\ presRels[i].Target = PartName("slides", <<1, 0>>)
          /\ presRels[j].Target = PartName("slides", <<2>>)
    /\ Len(outcome.slides) = 2

(***************************************************************************)
(* C3.  When neither the slide nor its layout has a p:bg,                  *)
(* getSlideBackgroundFill returns the background of the master: for a      *)
(* master whose p:bg holds a p:bgPr with a solid fill, the record          *)
(* {type: 'color', value: that colour}; and it returns the default         *)
(* {type: 'color', value: '#fff'} when the master has no p:bg either.      *)
(***************************************************************************)
C3_FallsBackToMaster ==
    (fillPc = "returned" /\ slideBg = Undefined /\ layoutBg = Undefined) =>
        IF masterBg = Undefined
        THEN bgResult = [type |-> "color", value |-> DefaultBackground]
        ELSE HasBgPr(masterBg) /\ getFillType(masterBg.bgPr) = "SOLID_FILL" =>
                bgResult = [type  |-> "color",
                            value |-> getSolidFill(masterBg.bgPr.solidFill, BgClrMap)]

(***************************************************************************)
(* C4.  Every record getSlideBackgroundFill returns has a type among       *)
(* color, gradient and image, and a value of the shape of its type: a hex  *)
(* colour string for color, a {rot, colors} record for gradient, a data    *)
(* URL string for image.                                                   *)
(***************************************************************************)
C4_ValueMatchesType ==
    fillPc = "returned" =>
        /\ bgResult.type \in {"color", "gradient", "image"}
        /\ bgResult.type = "color" => IsHexColor(bgResult.value)
        /\ bgResult.type = "gradient" => DOMAIN bgResult.value = {"rot", "colors"}
        /\ bgResult.type = "image" => IsDataUrl(bgResult.value)

(***************************************************************************)
(* C5.  Every colour string the fill resolvers emit (the value of a        *)
(* colour background, the default included; the colour of each stop of a   *)
(* gradient background; the string getShapeFill returns) is '#' followed   *)
(* by exactly 6 or exactly 8 hex digits, or is '' or 'none'.               *)
(***************************************************************************)
IsColorOrSentinel(s) == IsHexColor(s) \/ s = EmptyString \/ s = NoneString

C5_ColorsAreWellFormed ==
    /\ (fillPc = "returned" /\ bgResult.type = "color") =>
          IsColorOrSentinel(bgResult.value)
    /\ (fillPc = "returned" /\ bgResult.type = "gradient") =>
          \A i \in 1..Len(bgResult.value.colors) :
              IsColorOrSentinel(bgResult.value.colors[i].color)
    /\ (shapeFill # Undefined /\ shapeFill.result.defined) =>
          IsColorOrSentinel(shapeFill.result.value)

(***************************************************************************)
(* C6.  In every record getBgGradientFill returns, the stops of colors     *)
(* are in ascending order of their numeric position pos/1000: of any two   *)
(* stops that have a position, the one with the smaller position is not    *)
(* after the other.                                                        *)
(***************************************************************************)
\* The pos attribute (in 1/1000 percent) an emitted pos string was made of.
PosOfString(str) ==
    (CHOOSE p \in {s.pos : s \in StopPool} : PosString(p) = str).v

C6_StopsSortedByPosition ==
    gradReturn # Undefined =>
        \A i, j \in 1..Len(gradReturn.colors) :
            (/\ i < j
             /\ gradReturn.colors[i].pos # EmptyString
             /\ gradReturn.colors[j].pos # EmptyString)
            => PosOfString(gradReturn.colors[i].pos) <= PosOfString(gradReturn.colors[j].pos)

(***************************************************************************)
(* C7.  The rot of the record getBgGradientFill returns is 90 when the     *)
(* a:gradFill has no a:lin; with an a:lin that has ang it is               *)
(* round(ang / 60000) + 90, the rounding being to the nearest whole degree *)
(* with a half going up (ang = 5400000 gives 180); with an a:lin that has  *)
(* no ang it is 90.                                                        *)
(***************************************************************************)
C7_RotFromLin ==
    gradReturn # Undefined =>
        LET lin == gradArg.lin
            deg == gradReturn.rot - 90
        IN  IF lin.present /\ lin.ang.present
            THEN /\ 60000 * deg - 30000 <= lin.ang.v
                 /\ lin.ang.v < 60000 * deg + 30000
                 /\ lin.ang.v = 5400000 => gradReturn.rot = 180
            ELSE gradReturn.rot = 90

\* An a:lin whose ang is half a degree past 90 degrees: rot is 91 + 90.
C7_Witness ==
    /\ gradReturn # Undefined
    /\ gradArg.lin.present
    /\ gradArg.lin.ang = Attr(5430000)
    /\ gradReturn.rot = 181

(***************************************************************************)
(* C2.  The elements array of a slide lists the records of the drawable    *)
(* children of its shape tree in the document order of the tree, also when *)
(* children of different kinds are interleaved (p:sp, p:pic, p:sp gives    *)
(* shape, image, shape).                                                   *)
(***************************************************************************)
\* The records of the children, taken in document order.
InDocumentOrder(children, dgmSps) ==
    Pushed([i \in 1..Len(children) |->
               processNodesInSlide(children[i].tag, children[i], "slide", dgmSps)])

C2_ElementsInDocumentOrder ==
    slidePc = "resolved" =>
        slideReturn.elements = InDocumentOrder(nodes, digramFileContent)

(***************************************************************************)
(* C8.  Every record emitted as a direct child of a group has              *)
(* left = (left0 - chx) * cx / chcx, top = (top0 - chy) * cy / chcy,       *)
(* width = width0 * cx / chcx, height = height0 * cy / chcy, where         *)
(* (left0, top0, width0, height0) is the geometry the child resolved to    *)
(* before the remapping and chcx, chcy are not 0.  With ext = (2000,       *)
(* 1000), chExt = (1000, 500), chOff = (0, 0), a child at (500, 250) of    *)
(* size (100, 100) is emitted at (1000, 500) with size (200, 200).         *)
(***************************************************************************)
\* The children that yield a record, in the order their records are pushed.
Yielding(children, dgmSps) ==
    SelectSeq(ForInOrder(children),
              LAMBDA n : Truthy(processNodesInSlide(n.tag, n, "slide", dgmSps)))

HasGeometry(element) ==
    \A f \in {"left", "top", "width", "height"} : IsFinite(Geometry(element, f))

\* The claim's formula for the k-th record of the group record `rec` that
\* the group node g yielded.
RemappedAsClaimed(g, rec, k, dgmSps) ==
    LET kid  == Yielding(g.children, dgmSps)[k]
        pre  == processNodesInSlide(kid.tag, kid, "slide", dgmSps)
        out  == rec.elements[k]
        chx  == Points(g.xfrm.chOff[1])
        chy  == Points(g.xfrm.chOff[2])
        cx   == Points(g.xfrm.ext[1])
        cy   == Points(g.xfrm.ext[2])
        chcx == Points(g.xfrm.chExt[1])
        chcy == Points(g.xfrm.chExt[2])
    IN  (HasGeometry(pre) /\ chcx.n # 0 /\ chcy.n # 0) =>
            /\ out.left   = RatDiv(RatMul(RatSub(pre.left, chx), cx), chcx)
            /\ out.top    = RatDiv(RatMul(RatSub(pre.top, chy), cy), chcy)
            /\ out.width  = RatDiv(RatMul(pre.width, cx), chcx)
            /\ out.height = RatDiv(RatMul(pre.height, cy), chcy)

\* The same for the group g and for every group inside it.
RECURSIVE GroupRemappedAsClaimed(_, _, _)
GroupRemappedAsClaimed(g, rec, dgmSps) ==
    LET kids == Yielding(g.children, dgmSps)
    IN  /\ Len(rec.elements) = Len(kids)
        /\ \A k \in 1..Len(kids) :
              /\ RemappedAsClaimed(g, rec, k, dgmSps)
              /\ kids[k].tag = "p:grpSp" =>
                    GroupRemappedAsClaimed(kids[k], rec.elements[k], dgmSps)

C8_ChildrenRemapped ==
    slidePc = "resolved" =>
        LET top == Yielding(nodes, digramFileContent)
        IN  /\ Len(slideReturn.elements) = Len(top)
            /\ \A i \in 1..Len(top) :
                  top[i].tag = "p:grpSp" =>
                      GroupRemappedAsClaimed(top[i], slideReturn.elements[i],
                                             digramFileContent)

\* The group of the example: its one child is emitted at (1000, 500) with
\* size (200, 200).
C8_Witness ==
    /\ slidePc = "resolved"
    /\ nodes = <<GrpSp(GrpXfrmDouble, <<SpRect>>)>>
    /\ LET out == slideReturn.elements[1].elements[1]
       IN  /\ out.left = Rat(1000, 1)
           /\ out.top = Rat(500, 1)
           /\ out.width = Rat(200, 1)
           /\ out.height = Rat(200, 1)

(***************************************************************************)
(* C9.  As stated: for a group whose chOff equals its off and whose chExt  *)
(* equals its ext, every child is emitted with the left, top, width and    *)
(* height it resolved to before the remapping, for any off.                *)
(***************************************************************************)
SameGeometry(out, pre) ==
    /\ out.left = pre.left
    /\ out.top = pre.top
    /\ out.width = pre.width
    /\ out.height = pre.height

C9_IdentityWhenChOffIsOff ==
    slidePc = "resolved" =>
        LET top == Yielding(nodes, digramFileContent)
        IN  \A i \in 1..Len(top) :
                (/\ top[i].tag = "p:grpSp"
                 /\ top[i].xfrm.chOff = top[i].xfrm.off
                 /\ top[i].xfrm.chExt = top[i].xfrm.ext)
                => LET kids == Yielding(top[i].children, digramFileContent)
                   IN  \A k \in 1..Len(kids) :
                           LET pre == processNodesInSlide(kids[k].tag, kids[k], "slide",
                                                          digramFileContent)
                           IN  HasGeometry(pre) =>
                                   SameGeometry(slideReturn.elements[i].elements[k], pre)

(***************************************************************************)
(* C9, amended.  For a group whose chExt equals its ext, every child is    *)
(* emitted with the width and height it resolved to and with its left and  *)
(* top moved back by chOff (in points); so the remapping is the identity   *)
(* on child coordinates when chOff is (0, 0), for any off, and with        *)
(* chOff = off it moves the children by -off.                              *)
(***************************************************************************)
C9_IdentityWhenChOffIsZero ==
    slidePc = "resolved" =>
        LET top == Yielding(nodes, digramFileContent)
        IN  \A i \in 1..Len(top) :
                (/\ top[i].tag = "p:grpSp"
                 /\ top[i].xfrm.chExt = top[i].xfrm.ext)
                => LET kids == Yielding(top[i].children, digramFileContent)
                       chx  == Points(top[i].xfrm.chOff[1])
                       chy  == Points(top[i].xfrm.chOff[2])
                   IN  \A k \in 1..Len(kids) :
                           LET pre == processNodesInSlide(kids[k].tag, kids[k], "slide",
                                                          digramFileContent)
                               out == slideReturn.elements[i].elements[k]
                           IN  HasGeometry(pre) =>
                                   /\ out.width = pre.width
                                   /\ out.height = pre.height
                                   /\ out.left = RatSub(pre.left, chx)
                                   /\ out.top = RatSub(pre.top, chy)
                                   /\ top[i].xfrm.chOff = <<0, 0>> => SameGeometry(out, pre)

\* A group at a non-zero off with chOff = (0, 0) and chExt = ext, whose
\* children are emitted where they resolved to.
C9_Witness ==
    /\ slidePc = "resolved"
    /\ Len(nodes) = 1
    /\ nodes[1].tag = "p:grpSp"
    /\ nodes[1].xfrm # Undefined
    /\ nodes[1].xfrm.off # <<0, 0>>
    /\ nodes[1].xfrm.chOff = <<0, 0>>
    /\ nodes[1].xfrm.chExt = nodes[1].xfrm.ext
    /\ nodes[1].children = <<SpSmall, PicImage, SpTextBox>>
    /\ Len(slideReturn.elements[1].elements) = 3
    /\ slideReturn.elements[1].elements[1].left = Rat(301, 2)

(***************************************************************************)
(* C10.  Every record of a slide's elements array, and every record of the *)
(* elements array of a group or of a diagram in it, is a resolved record   *)
(* whose type is one of shape, text, image, video, audio, table, chart,    *)
(* diagram, group: none is without a type, none is a pending value.        *)
(***************************************************************************)
ElementTypes ==
    {"shape", "text", "image", "video", "audio", "table", "chart", "diagram", "group"}

RECURSIVE AllResolvedRecords(_)
AllResolvedRecords(els) ==
    \A i \in 1..Len(els) :
        /\ ~IsPromise(els[i])
        /\ "type" \in DOMAIN els[i]
        /\ els[i].type \in ElementTypes
        /\ els[i].type \in {"group", "diagram"} => AllResolvedRecords(els[i].elements)

C10_EveryElementIsTyped ==
    slidePc = "resolved" => AllResolvedRecords(slideReturn.elements)

(***************************************************************************)
(* C11.  When ppt/_rels/presentation.xml.rels has no relationship of the   *)
(* theme type, parse is rejected with an error once loadTheme has run: no  *)
(* slide part has been read or processed by then, none is afterwards, and  *)
(* the caller is given no result.                                          *)
(***************************************************************************)
C11_FailsFastWithoutTheme ==
    (\A i \in 1..Len(presRels) : presRels[i].Type # ThemeRelType) =>
        /\ pc \in {"getContentTypes", "getSlideInfo", "loadTheme", "rejected"}
        /\ slides = <<>>
        /\ cursor = 0
        /\ \A i \in 1..Len(partsRead) : partsRead[i].folder # "slides"
        /\ pc = "rejected" =>
              /\ outcome.state = "rejected"
              /\ outcome.error = "Can't open theme file."
              /\ DOMAIN outcome = {"state", "error"}

\* parse was rejected by loadTheme for a package that has slides.
C11_Witness ==
    /\ pc = "rejected"
    /\ \A i \in 1..Len(presRels) : presRels[i].Type # ThemeRelType
    /\ Len(filesInfo.slides) >= 2
    /\ partsRead = <<ContentTypesPart, PresentationPart, PresentationRelsPart>>

(***************************************************************************)
(* C12.  parse exposes slide output only on full success.  While parse is  *)
(* pending and when it is rejected (a slide part is unreadable, or an      *)
(* error is thrown while a slide is processed) the caller observes no      *)
(* slide record; when parse resolves, every slide has been processed       *)
(* completely: no record holds a handler that parse did not wait for,      *)
(* whose work may be unfinished and whose error would not reject parse.    *)
(***************************************************************************)
RECURSIVE HasUnawaitedHandler(_)
HasUnawaitedHandler(els) ==
    \E i \in 1..Len(els) :
        \/ IsPromise(els[i])
        \/ /\ "elements" \in DOMAIN els[i]
           /\ HasUnawaitedHandler(els[i].elements)

C12_SlidesOnlyOnFullSuccess ==
    /\ outcome.state # "resolved" => "slides" \notin DOMAIN outcome
    /\ outcome.state = "rejected" => pc = "rejected" /\ cursor <= Len(filesInfo.slides)
    /\ outcome.state = "resolved" =>
          /\ Len(outcome.slides) = Len(filesInfo.slides)
          /\ \A i \in 1..Len(outcome.slides) :
                ~HasUnawaitedHandler(outcome.slides[i].elements)

(***************************************************************************)
(* C13.  A relationship id that names no relationship of the slide never   *)
(* aborts the processing: a p:pic whose r:embed (or whose video or audio   *)
(* r:link) dangles and a chart frame whose r:id dangles do not make        *)
(* processSingleSlide, and with it parse, reject.                          *)
(***************************************************************************)
HasDanglingRId(node) ==
    \/ /\ node.tag = "p:pic"
       /\ \/ node.embed \notin DOMAIN MediaResObj
          \/ node.videoLink # "" /\ node.videoLink \notin DOMAIN MediaResObj
          \/ node.audioLink # "" /\ node.audioLink \notin DOMAIN MediaResObj
    \/ /\ node.tag = "p:graphicFrame"
       /\ node.uri = ChartUri
       /\ node.rid \notin DOMAIN MediaResObj

C13_DanglingRIdNeverAborts ==
    slidePc = "rejected" => ~HasDanglingRId(TreeEntries(nodes)[nodeCursor])

(***************************************************************************)
(* C14.  For a p:sp whose p:ph has no type, the type is decided in this    *)
(* order: 'text' when txBox is '1'; else the type of the layout            *)
(* placeholder found by its idx; else the type of the master placeholder;  *)
(* else 'diagram' for the source 'diagramBg' and 'obj' otherwise.  The     *)
(* record emitted for the shape is the one genShape builds for that type;  *)
(* a text box without custom geometry is emitted with type 'text', with a  *)
(* preset geometry too.                                                    *)
(***************************************************************************)
ClaimedSpType(node, source) ==
    LET layoutPh == TableEntry(SlideLayoutTables.idxTable, node.idx)
        masterPh == TableEntry(SlideMasterTables.idxTable, node.idx)
    IN  CASE node.txBox -> "text"
          [] ~node.txBox /\ SpPhType(layoutPh) # "" -> layoutPh.phType
          [] ~node.txBox /\ SpPhType(layoutPh) = "" /\ SpPhType(masterPh) # "" ->
                masterPh.phType
          [] OTHER -> IF source = "diagramBg" THEN "diagram" ELSE "obj"

C14_TypeOrder ==
    /\ \A k \in 1..Len(TreeEntries(nodes)) :
          LET node == TreeEntries(nodes)[k] IN
          (node.tag = "p:sp" /\ node.phType = "" /\ k < nodeCursor) =>
              /\ SpType(node, "slide") = ClaimedSpType(node, "slide")
              /\ \E i \in 1..Len(elements) :
                    elements[i] = genShape(node, SlideLayoutSpNode(node),
                                           SlideMasterSpNode(node), node.name,
                                           ClaimedSpType(node, "slide"))
              /\ (node.txBox /\ ~node.custGeom) =>
                    \A i \in 1..Len(elements) :
                        ("name" \in DOMAIN elements[i] /\ elements[i].name = node.name)
                            => elements[i].type = "text"
    /\ \A k \in 1..Len(digramFileContent) :
          LET node == digramFileContent[k] IN
          node.phType = "" =>
              SpType(node, "diagramBg") = ClaimedSpType(node, "diagramBg")

\* A text box with a preset geometry and the idx of a layout placeholder of
\* type body has been emitted as a text element.
C14_Witness ==
    /\ slidePc = "resolved"
    /\ nodes = <<SpPh("TextBox 8", XfrmA, "rect", FALSE, TRUE, "", "10")>>
    /\ Len(slideReturn.elements) = 1
    /\ slideReturn.elements[1].type = "text"
    /\ slideReturn.elements[1].name = "TextBox 8"

(***************************************************************************)
(* C15.  getTextByPathList never throws for a missing branch.  For any     *)
(* tree, null and undefined included, and any path that is an array, it    *)
(* returns the node the keys lead to, or the falsy value found at the      *)
(* first key that leads to one, and it reads no key after that one.  It    *)
(* throws when the path is not an array.                                   *)
(***************************************************************************)
\* The value the first i keys lead to, when each value before it is truthy.
RECURSIVE Follow(_, _, _)
Follow(node, keys, i) ==
    IF i = 0 THEN node ELSE Member(Follow(node, keys, i - 1), keys[i])

\* The positions at which the walk meets a falsy value (0 is the tree).
MissingAt(node, keys) ==
    {i \in 0..Len(keys) :
        /\ Falsy(Follow(node, keys, i))
        /\ \A j \in 0..(i - 1) : ~Falsy(Follow(node, keys, j))}

C15_NeverThrowsForMissingBranch ==
    pathReturn.state # "called" =>
        IF "array" \in DOMAIN pathArg
        THEN /\ pathReturn.state = "returned"
             /\ LET keys == pathArg.array
                    missing == MissingAt(pathNode, keys)
                IN  IF missing = {}
                    THEN /\ pathReturn.value = Follow(pathNode, keys, Len(keys))
                         /\ pathRead = Len(keys)
                    ELSE \A i \in missing :
                            /\ pathReturn.value = Follow(pathNode, keys, i)
                            /\ Falsy(pathReturn.value)
                            /\ pathRead = i
        ELSE pathReturn.state = "threw"

\* A path of three keys whose second key is missing: undefined is returned
\* after two keys.
C15_Witness ==
    /\ pathReturn.state = "returned"
    /\ pathArg = JsArray(<<"a:xfrm", "a:off", "attrs">>)
    /\ pathNode = JsObject("a:xfrm" :> JsObject("attrs" :> JsObject("a:off" :> JsNumber(5))))
    /\ pathReturn.value = Undefined
    /\ pathRead = 2

(***************************************************************************)
(* C16.  The resolution of image fills is memoized per slide: whatever the *)
(* number of shapes for which genShape resolves the background again, no   *)
(* media target is read from the archive more than once for one slide.     *)
(***************************************************************************)
C16_EachTargetReadOnce ==
    \A i, j \in 1..Len(zipReads) : zipReads[i] = zipReads[j] => i = j

(***************************************************************************)
(* C17.  The elements of a slide are processed strictly one after the      *)
(* other: at most one handler is in flight at a time, and every handler,   *)
(* the handler of each shape of a diagram included, has completed before   *)
(* the next one starts and before the record that holds its result, and    *)
(* the slide, are emitted.                                                 *)
(***************************************************************************)
C17_StrictlySequential ==
    /\ inFlight <= 1
    /\ elements # <<>> => inFlight = 0
    /\ slidePc = "resolved" => inFlight = 0

(***************************************************************************)
(* C18.  Once warpObj is built for a slide no handler changes it or a tree *)
(* reachable from it (the image cache apart): the table styles that        *)
(* warpObj['tableStyles'] holds are after every step of the processing of  *)
(* the slide what they were before it.                                     *)
(***************************************************************************)
C18_WarpObjIsNotChanged == [][tableStyles' = tableStyles]_vars

(***************************************************************************)
(* C19.  Nested groups compose: the geometry emitted for a grandchild (a   *)
(* child of a group that is itself a child of a group) is the geometry it  *)
(* resolved to, remapped by the inner group and then by the outer group.   *)
(***************************************************************************)
\* The remapping of the group g applied to a geometry.
RemappedBy(g, geom) ==
    LET chx  == Points(g.xfrm.chOff[1])
        chy  == Points(g.xfrm.chOff[2])
        cx   == Points(g.xfrm.ext[1])
        cy   == Points(g.xfrm.ext[2])
        chcx == Points(g.xfrm.chExt[1])
        chcy == Points(g.xfrm.chExt[2])
    IN  [left   |-> RatDiv(RatMul(RatSub(geom.left, chx), cx), chcx),
         top    |-> RatDiv(RatMul(RatSub(geom.top, chy), cy), chcy),
         width  |-> RatDiv(RatMul(geom.width, cx), chcx),
         height |-> RatDiv(RatMul(geom.height, cy), chcy)]

HasScales(g) == g.xfrm.chExt[1] # 0 /\ g.xfrm.chExt[2] # 0

GrandchildrenComposed(outer, rec, dgmSps) ==
    LET kids == Yielding(outer.children, dgmSps)
    IN  \A k \in 1..Len(kids) :
            (kids[k].tag = "p:grpSp" /\ HasScales(outer) /\ HasScales(kids[k])) =>
                LET inner     == kids[k]
                    grandkids == Yielding(inner.children, dgmSps)
                IN  \A m \in 1..Len(grandkids) :
                        LET pre == processNodesInSlide(grandkids[m].tag, grandkids[m],
                                                       "slide", dgmSps)
                            out == rec.elements[k].elements[m]
                        IN  HasGeometry(pre) =>
                                SameGeometry(out, RemappedBy(outer, RemappedBy(inner, pre)))

C19_NestedGroupsCompose ==
    slidePc = "resolved" =>
        LET top == Yielding(nodes, digramFileContent)
        IN  \A i \in 1..Len(top) :
                top[i].tag = "p:grpSp" =>
                    GrandchildrenComposed(top[i], slideReturn.elements[i],
                                          digramFileContent)

(***************************************************************************)
(* C20.  genShape classifies a p:sp: with a custom geometry and a type     *)
(* other than 'diagram' it emits {type: 'shape', shapType: 'custom', path}; *)
(* else with a preset geometry and the type 'obj' or none it emits         *)
(* {type: 'shape', shapType}; else it emits {type: 'text'} with the        *)
(* rotation of the text.  A shape with a custom geometry is emitted as a   *)
(* custom shape also when it has no a:xfrm of its own and takes its        *)
(* geometry from a placeholder: no p:sp makes the slide fail.              *)
(***************************************************************************)
ClassifiedAsClaimed(node, e) ==
    LET type == SpType(node, "slide")
    IN  IF node.custGeom /\ type # "diagram"
        THEN e.type = "shape" /\ e.shapType = "custom" /\ "path" \in DOMAIN e
        ELSE IF node.prst # "" /\ type = "obj"
        THEN e.type = "shape" /\ e.shapType = node.prst
        ELSE /\ e.type = "text"
             /\ TxXfrm(node) = Undefined =>
                   e.rotate = angleToDegrees(XfrmRot(node.xfrm))

C20_ShapeClassification ==
    \A k \in 1..Len(TreeEntries(nodes)) :
        LET node == TreeEntries(nodes)[k] IN
        node.tag = "p:sp" =>
            /\ (k = nodeCursor) => slidePc # "rejected"
            /\ (k < nodeCursor) =>
                  \E i \in 1..Len(elements) :
                      /\ "name" \in DOMAIN elements[i]
                      /\ elements[i].name = node.name
                      /\ ClassifiedAsClaimed(node, elements[i])

(***************************************************************************)
(* C21.  Every p:cxnSp of a shape tree is handled by the shape builder and *)
(* yields a record of type 'shape', with or without a p:ph, with or        *)
(* without a geometry: no p:cxnSp makes the slide fail.                    *)
(***************************************************************************)
C21_ConnectorYieldsShape ==
    \A k \in 1..Len(TreeEntries(nodes)) :
        LET node == TreeEntries(nodes)[k] IN
        node.tag = "p:cxnSp" =>
            /\ (k = nodeCursor) => slidePc # "rejected"
            /\ (k < nodeCursor) =>
                  \E i \in 1..Len(elements) :
                      /\ "name" \in DOMAIN elements[i]
                      /\ elements[i].name = node.name
                      /\ elements[i].type = "shape"

(***************************************************************************)
(* C22.  Every text record emitted for a shape has a rotate: it is         *)
(* round(rot / 60000) + 90 when the p:txXfrm of the node has a rot, and    *)
(* the rotation of the shape in every other case, a p:txXfrm without rot   *)
(* included.                                                               *)
(***************************************************************************)
C22_TextRotation ==
    \A k \in 1..Len(TreeEntries(nodes)) :
        LET node == TreeEntries(nodes)[k] IN
        (node.tag = "p:sp" /\ k < nodeCursor) =>
            \A i \in 1..Len(elements) :
                LET e == elements[i] IN
                ("name" \in DOMAIN e /\ e.name = node.name /\ e.type = "text") =>
                    /\ "rotate" \in DOMAIN e
                    /\ e.rotate =
                          IF TxXfrm(node) # Undefined /\ TxXfrm(node).rot.present
                          THEN angleToDegrees(TxXfrm(node).rot) + 90
                          ELSE angleToDegrees(XfrmRot(node.xfrm))

(***************************************************************************)
(* C23.  For a p:sp of a slide the placeholder nodes of the layout and of  *)
(* the master are looked up in the type index when its p:ph has a type,    *)
(* with or without an idx, in the idx index only when it has an idx and no *)
(* type, and not at all with neither; the layout and the master are asked  *)
(* with the same key.  The record emitted for a shape without an a:xfrm of *)
(* its own has the geometry of the placeholder found that way.             *)
(***************************************************************************)
ClaimedPlaceholder(tables, node) ==
    CASE node.phType # "" -> TableEntry(tables.typeTable, node.phType)
      [] node.phType = "" /\ node.idx # "" -> TableEntry(tables.idxTable, node.idx)
      [] OTHER -> Undefined

C23_PlaceholderLookup ==
    \A k \in 1..Len(TreeEntries(nodes)) :
        LET node == TreeEntries(nodes)[k] IN
        (node.tag = "p:sp" /\ k < nodeCursor) =>
            LET layoutPh == ClaimedPlaceholder(SlideLayoutTables, node)
                masterPh == ClaimedPlaceholder(SlideMasterTables, node)
                xfrmNode == InheritedXfrm(node.xfrm, SpXfrm(layoutPh), SpXfrm(masterPh))
            IN  /\ SlideLayoutSpNode(node) = layoutPh
                /\ SlideMasterSpNode(node) = masterPh
                /\ \E i \in 1..Len(elements) :
                      /\ "name" \in DOMAIN elements[i]
                      /\ elements[i].name = node.name
                      /\ elements[i].left = getPosition(xfrmNode).left
                      /\ elements[i].top = getPosition(xfrmNode).top
                      /\ elements[i].width = getSize(xfrmNode).width
                      /\ elements[i].height = getSize(xfrmNode).height

\* A title placeholder with idx 10 and no a:xfrm is emitted with the
\* geometry of the title of the layout (72pt, 36pt, 720pt x 72pt), not of
\* the body placeholder the layout has at idx 10.
C23_Witness ==
    /\ slidePc = "resolved"
    /\ nodes = <<SpPh("Title 17", Undefined, "", FALSE, FALSE, "title", "10")>>
    /\ Len(slideReturn.elements) = 1
    /\ slideReturn.elements[1].left = Rat(72, 1)
    /\ slideReturn.elements[1].top = Rat(36, 1)
    /\ slideReturn.elements[1].width = Rat(720, 1)

(***************************************************************************)
(* C24.  indexNodes enters every child of the shape tree (p:nvGrpSpPr and  *)
(* p:grpSpPr apart) in the tables by id, by idx and by type under each of  *)
(* these keys the child has; of the children that share a key the table    *)
(* keeps the one that is last in document order, whatever their kinds.     *)
(***************************************************************************)
\* The last child, in document order, whose attribute attr is key.
LastWithKey(children, attr, key) ==
    LET holders == {k \in 1..Len(children) : children[k][attr] = key}
    IN  children[CHOOSE k \in holders : \A m \in holders : m <= k]

IndexedUnder(table, children, attr) ==
    \A k \in 1..Len(children) :
        children[k][attr] # "" =>
            /\ children[k][attr] \in DOMAIN table
            /\ table[children[k][attr]] = LastWithKey(children, attr, children[k][attr])

C24_LaterChildWins ==
    indexReturn # Undefined =>
        /\ IndexedUnder(indexReturn.idTable, spTreeNode, "id")
        /\ IndexedUnder(indexReturn.idxTable, spTreeNode, "idx")
        /\ IndexedUnder(indexReturn.typeTable, spTreeNode, "phType")

(***************************************************************************)
(* C25.  The mc:Fallback of an mc:AlternateContent is handled as a group:  *)
(* once the node is processed the slide holds a group record with one      *)
(* record per drawable child of the fallback, whether or not the fallback  *)
(* carries a p:grpSpPr transform.                                          *)
(***************************************************************************)
FallbackChildrenYielded(node) ==
    \E i \in 1..Len(elements) :
        /\ elements[i].type = "group"
        /\ Len(elements[i].elements) = Len(node.fallback.children)

C25_FallbackHandledAsGroup ==
    \A k \in 1..Len(TreeEntries(nodes)) :
        LET node == TreeEntries(nodes)[k] IN
        (/\ node.tag = "mc:AlternateContent"
         /\ node.fallback # Undefined
         /\ k < nodeCursor) => FallbackChildrenYielded(node)

(***************************************************************************)
(* C26.  Loading the relationships of a part gives, for a single           *)
(* Relationship element, what it gives for the one-element array of it;    *)
(* the link of the part (layout, master, theme) is found exactly when a    *)
(* relationship of its type exists, and every other relationship is        *)
(* entered in the rId map.                                                 *)
(***************************************************************************)
HasLinkRelationship ==
    \E k \in 1..Len(relationshipArray.items) :
        relationshipArray.items[k].Type = LinkRelType(relsPart)

OthersInRIdMap ==
    \A k \in 1..Len(relationshipArray.items) :
        relationshipArray.items[k].Type # LinkRelType(relsPart) =>
            relationshipArray.items[k].Id \in DOMAIN relsReturn.resObj

C26_ScalarAsOneElementArray ==
    relsReturn # Undefined =>
        /\ ~relationshipArray.array =>
               relsReturn = LoadRelationships(relsPart,
                                [array |-> TRUE, items |-> relationshipArray.items])
        /\ (relsReturn.filename # NoFilename) <=> HasLinkRelationship
        /\ OthersInRIdMap

(***************************************************************************)
(* C27.  A diagram frame yields a record of type 'diagram' with left, top, *)
(* width, height and elements, where elements holds one fully built record *)
(* per p:sp of the drawing part, in document order, for any number of      *)
(* p:sp: several, exactly one, or none; it never rejects the slide.        *)
(***************************************************************************)
DiagramRecordBuilt(record) ==
    /\ {"type", "left", "top", "width", "height", "elements"} \subseteq DOMAIN record
    /\ record.type = "diagram"
    /\ Len(record.elements) = Len(digramFileContent)
    /\ \A j \in 1..Len(digramFileContent) :
           record.elements[j] = Await(processSpNode(digramFileContent[j], "diagramBg"))

C27_DiagramElementsBuilt ==
    \A k \in 1..Len(TreeEntries(nodes)) :
        LET node == TreeEntries(nodes)[k] IN
        (node.tag = "p:graphicFrame" /\ node.uri = DiagramUri) =>
            /\ (k = nodeCursor) => slidePc # "rejected"
            /\ (k < nodeCursor) =>
                  \E i \in 1..Len(elements) : DiagramRecordBuilt(elements[i])

(***************************************************************************)
(* C28.  getShapeFill resolves by strict precedence: with a:noFill the     *)
(* result is 'none' in SVG mode and '' otherwise, whatever other fill the  *)
(* shape has; else it is the a:srgbClr of a:solidFill; else the scheme     *)
(* colour of a:solidFill; else the scheme colour of p:style/a:fillRef;     *)
(* with none of them it is 'none' in SVG mode and falsy otherwise.         *)
(***************************************************************************)
\* The colours the claim tries, in its order; the first that is there.
ClaimedFillColor(node) ==
    LET tried == <<IF node.solidFill.clr = "a:srgbClr"
                   THEN [found |-> TRUE, color |-> node.solidFill.val]
                   ELSE [found |-> FALSE, color |-> EmptyString],
                   IF node.solidFill.clr = "a:schemeClr"
                   THEN getSchemeColorFromTheme(node.solidFill.name, BgClrMap)
                   ELSE [found |-> FALSE, color |-> EmptyString],
                   IF node.fillRef # ""
                   THEN getSchemeColorFromTheme(node.fillRef, BgClrMap)
                   ELSE [found |-> FALSE, color |-> EmptyString]>>
        hits  == {k \in 1..3 : tried[k].found}
    IN  IF hits = {} THEN [found |-> FALSE, color |-> EmptyString]
        ELSE tried[CHOOSE k \in hits : \A m \in hits : k <= m]

C28_FillPrecedence ==
    shapeFill # Undefined =>
        LET node   == shapeFill.node
            result == shapeFill.result
            color  == ClaimedFillColor(node)
        IN  IF node.noFill
            THEN /\ result.defined
                 /\ result.value = IF shapeFill.isSvgMode THEN NoneString ELSE EmptyString
            ELSE IF color.found
            THEN /\ result.defined
                 /\ Head(result.value) = "#"
                 /\ tinycolor(result.value) = tinycolor(color.color)
            ELSE IF shapeFill.isSvgMode
            THEN result.defined /\ result.value = NoneString
            ELSE ~result.defined

C28_Witness ==
    /\ shapeFill # Undefined
    /\ ~shapeFill.node.noFill
    /\ shapeFill.node.solidFill.clr = "a:schemeClr"
    /\ getSchemeColorFromTheme(shapeFill.node.solidFill.name, BgClrMap).found
    /\ shapeFill.node.fillRef = "accent1"
    /\ shapeFill.result.defined
    /\ tinycolor(shapeFill.result.value) # tinycolor(ThemeClrScheme["accent1"])

(***************************************************************************)
(* C29.  Skipped media neither removes the element nor aborts the parse:   *)
(* a p:pic whose video (or audio) file has an extension that is not read   *)
(* still yields a video (or audio) record with its left, top, width,       *)
(* height and rotate and with no payload, and a picture fill whose target  *)
(* is an .xml part resolves to no image and reads nothing from the         *)
(* archive.                                                                *)
(***************************************************************************)
\* The media file of the picture is in the relationships and is not read.
MediaSkipped(node) ==
    /\ node.tag = "p:pic"
    /\ node.embed \in DOMAIN MediaResObj
    /\ IF node.videoLink # ""
       THEN /\ node.videoLink \in DOMAIN MediaResObj
            /\ MediaResObj[node.videoLink].ext \notin {"mp4", "webm", "ogg"}
       ELSE /\ node.audioLink \in DOMAIN MediaResObj
            /\ MediaResObj[node.audioLink].ext \notin {"mp3", "wav", "ogg"}

BoxWithoutPayload(node) ==
    [type   |-> IF node.videoLink # "" THEN "video" ELSE "audio",
     left   |-> getPosition(node.xfrm).left,
     top    |-> getPosition(node.xfrm).top,
     width  |-> getSize(node.xfrm).width,
     height |-> getSize(node.xfrm).height,
     rotate |-> angleToDegrees(XfrmRot(node.xfrm)),
     blob   |-> Undefined]

XmlPicFill ==
    /\ HasBgPr(slideBg)
    /\ slideBg.bgPr.blipFill # Undefined
    /\ slideBg.bgPr.blipFill.embed \in DOMAIN SlideResObj
    /\ SlideResObj[slideBg.bgPr.blipFill.embed].ext = "xml"

C29_SkippedMediaKeepsElement ==
    /\ \A k \in 1..Len(TreeEntries(nodes)) :
          LET node == TreeEntries(nodes)[k] IN
          MediaSkipped(node) =>
              /\ (k = nodeCursor) => slidePc # "rejected"
              /\ (k < nodeCursor) =>
                    \E i \in 1..Len(elements) : elements[i] = BoxWithoutPayload(node)
    /\ XmlPicFill =>
          /\ zipReads = <<>>
          /\ pendingRead = Undefined
          /\ fillPc = "returned" =>
                bgResult.type = "image" /\ bgResult.value.picBase64 = Undefined

C29_Witness ==
    /\ XmlPicFill
    /\ fillPc = "returned"
    /\ slidePc = "resolved"
    /\ \E k \in 1..Len(nodes) :
          /\ MediaSkipped(nodes[k])
          /\ nodes[k].videoLink # ""
          /\ \E i \in 1..Len(elements) : elements[i] = BoxWithoutPayload(nodes[k])
    /\ \E k \in 1..Len(nodes) :
          /\ MediaSkipped(nodes[k])
          /\ nodes[k].videoLink = ""
          /\ \E i \in 1..Len(elements) : elements[i] = BoxWithoutPayload(nodes[k])

=============================================================================
